---- MODULE Spec2Model ----
(***************************************************************************)
(* ID3v2 tag decoding of ktkr.us/pkg/sound (package id3v2): the header     *)
(* parser, the frame scanner, the frame body decoders and the tag          *)
(* assembler, as a state machine over Decode's steps; the text decoders    *)
(* also as pure functions under their own specification.                   *)
(*                                                                         *)
(* The sources Decode runs on come in three families: tags of up to        *)
(* MaxSegs segments (frames of every kind the scanner tells apart, frames  *)
(* it must reject, stray bytes) and up to MaxPad null bytes under a plain  *)
(* header; one frame under every header (flags, extended header, footer,   *)
(* sizes that fit and sizes that do not); one text frame of every scheme   *)
(* and string.                                                             *)
(*                                                                         *)
(* Representation.  A byte is an integer 0..255.  A Go string or []byte is *)
(* a sequence of bytes (a Go string holds UTF-8).  A uint32 is the pair    *)
(* <<hi, lo>> of its 16-bit halves, because TLC's integers are 32-bit      *)
(* signed and the code's unsigned subtractions wrap at 2^32.  A byte       *)
(* buffer cut from the tag is a record [d, z]: the bytes d followed by z   *)
(* bytes 0x00 (z a uint32): Decode allocates the tag buffer with the size  *)
(* the header declares and ignores a short read, so the buffer can end in  *)
(* up to 2^32-1 zero bytes that no sequence could hold.                    *)
(***************************************************************************)
EXTENDS Integers, Sequences, FiniteSets, TLC

VARIABLES
  src,        \* the byte source handed to Decode (a *bufio.Reader's content)
  srcOff,     \* bytes of src consumed so far
  pc,         \* Decode's position
  h,          \* *Header: [Major, Minor, Flags, Size]
  padding,    \* readHeader's second result, plus the footer
  tag,        \* Decode's tag buffer, [d, z]
  rr,         \* offset of the bytes.Reader over tag
  pos,        \* readFrames: consumed-byte counter
  frameSize,  \* readFrames: size of the current frame
  frameID,    \* readFrames: the frame ID window
  frames,     \* readFrames: map[string]string
  txxx,       \* readFrames: map[string]string of TXXX entries
  err,        \* the error Decode returns ("" for nil, "panic" for a run-time panic)
  tags,       \* the *Tags makeTags builds
  gen,        \* ghost: what src was built from
  tf,         \* the arguments and the result of a function applied on its own:
              \* the text decoder's under SpecText, synchsafe32's under
              \* SpecSynchsafe
  ogg         \* the Ogg Reader, its stream and the Read call in progress,
              \* under SpecOgg

decodeVars == <<src, srcOff, pc, h, padding, tag, rr, pos, frameSize, frameID,
                frames, txxx, err, tags, gen>>
vars == <<src, srcOff, pc, h, padding, tag, rr, pos, frameSize, frameID,
          frames, txxx, err, tags, gen, tf, ogg>>

----------------------------------------------------------------------------
\* Bytes, sequences, uint32.

\* x & bit != 0, for bit a power of two
HasBit(x, bit) == (x \div bit) % 2 = 1

Half == 256 * 256

\* the uint32 of a number below 2^31
U32(n) == <<n \div Half, n % Half>>

U32Add(a, b) ==
  LET lo == a[2] + b[2]
  IN  <<(a[1] + b[1] + (lo \div Half)) % Half, lo % Half>>

U32Sub(a, b) ==
  LET lo == a[2] - b[2] + Half
      borrow == IF lo < Half THEN 1 ELSE 0
  IN  <<(a[1] - b[1] - borrow + Half) % Half, lo % Half>>

U32Lt(a, b) == a[1] < b[1] \/ (a[1] = b[1] /\ a[2] < b[2])

U32Le(a, b) == ~U32Lt(b, a)

\* binary.BigEndian.Uint32
\* the uint32 of 4 bytes, least significant first
U32BytesLittle(b0, b1, b2, b3) == <<b3 * 256 + b2, b1 * 256 + b0>>

U32Bytes(b0, b1, b2, b3) == <<b0 * 256 + b1, b2 * 256 + b3>>

\* the number a uint32 below 2^31 stands for
ToNat(u) == u[1] * Half + u[2]

IsZero(u) == u = <<0, 0>>

IsOdd(u) == u[2] % 2 = 1

Zeros(n) == [i \in 1..n |-> 0]

\* a buffer of the bytes d and no zero tail
Mk(d) == [d |-> d, z |-> U32(0)]

BufLen(b) == U32Add(U32(Len(b.d)), b.z)

\* b[n:], for n <= len(b.d) or any n <= len(b)
BufDrop(b, n) ==
  IF n <= Len(b.d)
  THEN [d |-> SubSeq(b.d, n + 1, Len(b.d)), z |-> b.z]
  ELSE [d |-> <<>>, z |-> U32Sub(b.z, U32(n - Len(b.d)))]

\* b[i], 1-based, for i <= len(b)
BufAt(b, i) == IF i <= Len(b.d) THEN b.d[i] ELSE 0

\* The n bytes of buffer b from offset off (off + n <= len(b)).
BufTake(b, off, n) ==
  LET dl  == U32(Len(b.d))
      end == U32Add(off, n)
      dd  == IF U32Lt(off, dl)
             THEN SubSeq(b.d, ToNat(off) + 1,
                         IF U32Lt(dl, end) THEN Len(b.d) ELSE ToNat(end))
             ELSE <<>>
  IN  [d |-> dd, z |-> U32Sub(n, U32(Len(dd)))]

\* the n bytes of a buffer of n bytes, n a small number
BufMat(b, n) == b.d \o Zeros(n - Len(b.d))

\* A sequence that decodes like b: the zero tail cut to one or two bytes of
\* the same parity. Every decoder below ends by trimming trailing zero bytes
\* and reads the tail only for its parity and for being there.
Squash(b) ==
  b.d \o (IF IsZero(b.z) THEN <<>> ELSE IF IsOdd(b.z) THEN <<0>> ELSE <<0, 0>>)

----------------------------------------------------------------------------
\* Header and frame flags, errors.

\* the uint32 as it is
plainUint32(n) == n

synchsafe32(n) ==
  LET b0 == n[1] \div 256
      b1 == n[1] % 256
      b2 == n[2] \div 256
      b3 == n[2] % 256
      m  == (b3 % 128) + (b2 % 128) * 128
      mh == (b1 % 128) + (b0 % 128) * 128
  IN  <<mh \div 4, (mh % 4) * 16384 + m>>

flagUnsynchronisation == 128
flagExtendedHeader == 64
flagFooterPresent == 16
frameCompressed == 8
frameEncrypted == 4
frameUnsynchronisation == 2
frameDataLengthIndicator == 1
footerSize == 10

encISO8859_1 == 0
encUTF16_BOM == 1
encUTF16BE == 2
encUTF8 == 3

----------------------------------------------------------------------------
\* Text decoding.

\* Go's string(rune): the UTF-8 bytes of a code point below 0x10000; a
\* surrogate half becomes U+FFFD.
utf8(r) ==
  IF r < 128 THEN <<r>>
  ELSE IF r < 2048 THEN <<192 + (r \div 64), 128 + (r % 64)>>
  ELSE IF r >= 55296 /\ r <= 57343 THEN <<239, 191, 189>>
  ELSE <<224 + (r \div 4096), 128 + ((r \div 64) % 64), 128 + (r % 64)>>

RECURSIVE utf8All(_)
utf8All(runes) ==
  IF runes = <<>> THEN <<>> ELSE utf8(Head(runes)) \o utf8All(Tail(runes))

\* the bytes as they are, each taken for a character of the string
sameBytes(buf) == buf

decodeLatin1(buf) == utf8All(buf)

\* buf of even length
decodeUTF16BE(buf) ==
  utf8All([i \in 1..(Len(buf) \div 2) |-> buf[2 * i - 1] + buf[2 * i] * 256])

\* buf of even length
decodeUTF16LE(buf) ==
  utf8All([i \in 1..(Len(buf) \div 2) |-> buf[2 * i - 1] * 256 + buf[2 * i]])

\* strings.TrimRight(s, "\x00")
RECURSIVE TrimRightNul(_)
TrimRightNul(s) ==
  IF s # <<>> /\ s[Len(s)] = 0 THEN TrimRightNul(SubSeq(s, 1, Len(s) - 1)) ELSE s

\* bytes.Replace(buf, {0xFF, 0x00}, {0xFF}, -1)
RECURSIVE ReplaceFF00(_)
ReplaceFF00(buf) ==
  IF Len(buf) < 2 THEN buf
  ELSE IF buf[1] = 255 /\ buf[2] = 0
       THEN <<255>> \o ReplaceFF00(SubSeq(buf, 3, Len(buf)))
       ELSE <<buf[1]>> \o ReplaceFF00(Tail(buf))

\* the same on a buffer with a zero tail: a last 0xFF takes the tail's first byte
ReplaceFF00Buf(b) ==
  IF b.d # <<>> /\ b.d[Len(b.d)] = 255 /\ ~IsZero(b.z)
  THEN [d |-> ReplaceFF00(b.d), z |-> U32Sub(b.z, U32(1))]
  ELSE [d |-> ReplaceFF00(b.d), z |-> b.z]

\* a decoder that takes every selector and every byte order mark
decodeAnyway(enc, buf) == [s |-> buf, err |-> ""]

\* the switch of decodeTextFrame on a buffer that is not empty
decodeSwitch(enc, buf) ==
  CASE enc = encISO8859_1 -> [s |-> TrimRightNul(decodeLatin1(buf)), err |-> ""]
    [] enc = encUTF16_BOM ->
         IF Len(buf) < 2 THEN [s |-> <<>>, err |-> "panic"]
         ELSE LET bom  == SubSeq(buf, 1, 2)
                  rest == SubSeq(buf, 3, Len(buf))
              IN  IF bom = <<255, 254>>
                  THEN IF Len(rest) % 2 = 1 THEN [s |-> <<>>, err |-> "panic"]
                       ELSE [s |-> TrimRightNul(decodeUTF16BE(rest)), err |-> ""]
                  ELSE IF bom = <<254, 255>>
                  THEN IF Len(rest) % 2 = 1 THEN [s |-> <<>>, err |-> "panic"]
                       ELSE [s |-> TrimRightNul(decodeUTF16LE(rest)), err |-> ""]
                  ELSE [s |-> <<>>, err |-> "ErrMalformedBOM"]
    [] enc = encUTF16BE ->
         IF Len(buf) % 2 = 1 THEN [s |-> <<>>, err |-> "panic"]
         ELSE [s |-> TrimRightNul(decodeUTF16BE(buf)), err |-> ""]
    [] enc = encUTF8 -> [s |-> TrimRightNul(buf), err |-> ""]
    [] OTHER -> [s |-> <<>>, err |-> "unknown encoding"]

\* decodeTextFrame(enc, buf, unsynch), buf a buffer [d, z]. A buffer of one
\* byte holds no FF 00, and bytes.Replace then returns a copy made by append,
\* whose capacity is that of the allocator's size class: buf[:2] does not
\* fault on it and reads a zero byte as the second of the byte order mark.
decodeTextFrame(enc, buf, unsynch) ==
  IF IsZero(BufLen(buf)) THEN [s |-> <<>>, err |-> ""]
  ELSE IF unsynch /\ enc = encUTF16_BOM /\ BufLen(buf) = U32(1)
  THEN [s |-> <<>>, err |-> "ErrMalformedBOM"]
  ELSE decodeSwitch(enc, Squash(IF unsynch THEN ReplaceFF00Buf(buf) ELSE buf))

\* index of the first 0x00 of s, or 0 (strings.IndexByte, 1-based)
RECURSIVE IndexNul(_, _)
IndexNul(s, i) ==
  IF i > Len(s) THEN 0 ELSE IF s[i] = 0 THEN i ELSE IndexNul(s, i + 1)

\* index of the first i with s[i] = s[i+1] = 0x00, or 0
RECURSIVE IndexNulNul(_, _)
IndexNulNul(s, i) ==
  IF i + 1 > Len(s) THEN 0
  ELSE IF s[i] = 0 /\ s[i + 1] = 0 THEN i ELSE IndexNulNul(s, i + 1)

\* readTerminatedString(enc, r), r a bytes.Buffer over the buffer b:
\* [s: the string, err, rest: what r still holds].
\* For the two-byte encodings the loop takes two bytes with Next(2) and, when
\* they are not 00 00, keeps the first and gives one back with UnreadByte: it
\* advances one byte a turn and stops at the first 00 00 at any offset.
readTerminatedString(enc, b) ==
  IF enc = encISO8859_1 \/ enc = encUTF8
  THEN LET i == IndexNul(b.d, 1)
       IN  IF i > 0
           THEN [s |-> SubSeq(b.d, 1, i - 1), err |-> "", rest |-> BufDrop(b, i)]
           ELSE IF ~IsZero(b.z)
           THEN [s |-> b.d, err |-> "", rest |-> BufDrop(b, Len(b.d) + 1)]
           ELSE [s |-> <<>>, err |-> "EOF", rest |-> Mk(<<>>)]
  ELSE LET i == IndexNulNul(b.d, 1)
           n == Len(b.d)
       IN  IF i > 0
           THEN [s |-> SubSeq(b.d, 1, i - 1), err |-> "", rest |-> BufDrop(b, i + 1)]
           ELSE IF n > 0 /\ b.d[n] = 0 /\ ~IsZero(b.z)
           THEN [s |-> SubSeq(b.d, 1, n - 1), err |-> "", rest |-> BufDrop(b, n + 1)]
           ELSE IF U32Le(U32(2), b.z)
           THEN [s |-> b.d, err |-> "", rest |-> BufDrop(b, n + 2)]
           ELSE [s |-> <<>>, err |-> "unexpected eof inside terminated string",
                 rest |-> Mk(<<>>)]

\* decodeTXXX(txxx, buf, unsynch): [txxx: the map after the call, err]
decodeTXXX(m, buf, unsynch) ==
  IF IsZero(BufLen(buf)) THEN [txxx |-> m, err |-> "panic"]
  ELSE LET enc  == BufAt(buf, 1)
           name == readTerminatedString(enc, BufDrop(buf, 1))
           text == decodeTextFrame(enc, name.rest, unsynch)
       IN  IF name.err # "" THEN [txxx |-> m, err |-> name.err]
           ELSE IF text.err # "" THEN [txxx |-> m, err |-> text.err]
           ELSE [txxx |-> [k \in DOMAIN m \cup {name.s} |->
                             IF k = name.s THEN Mk(text.s) ELSE m[k]],
                 err |-> ""]

----------------------------------------------------------------------------
\* The text decoder as a pure function: SpecText draws a selector and the
\* bytes a string encodes to under one of the five schemes, and applies
\* decodeTextFrame to them.

MaxTextLen == 2

\* all sequences over S of length at most n
RECURSIVE SeqsUpTo(_, _)
SeqsUpTo(S, n) ==
  IF n = 0 THEN {<<>>}
  ELSE LET shorter == SeqsUpTo(S, n - 1)
       IN  shorter \cup {Append(s, x) : s \in {t \in shorter : Len(t) = n - 1}, x \in S}

\* code points: 'H', 'i', U+00E9, U+4E2D
Latin1Points == {72, 105, 233}
BMPPoints == {72, 105, 233, 20013}

\* the UTF-8 bytes of a string of code points below 0x10000, none a surrogate
RECURSIVE EncodeUTF8(_)
EncodeUTF8(s) ==
  IF s = <<>> THEN <<>>
  ELSE LET r == Head(s)
           one == IF r < 128 THEN <<r>>
                  ELSE IF r < 2048 THEN <<192 + (r \div 64), 128 + (r % 64)>>
                  ELSE <<224 + (r \div 4096), 128 + ((r \div 64) % 64), 128 + (r % 64)>>
       IN  one \o EncodeUTF8(Tail(s))

\* UTF-16, most significant byte first / last
RECURSIVE EncodeUTF16BE(_)
EncodeUTF16BE(s) ==
  IF s = <<>> THEN <<>>
  ELSE <<Head(s) \div 256, Head(s) % 256>> \o EncodeUTF16BE(Tail(s))

RECURSIVE EncodeUTF16LE(_)
EncodeUTF16LE(s) ==
  IF s = <<>> THEN <<>>
  ELSE <<Head(s) % 256, Head(s) \div 256>> \o EncodeUTF16LE(Tail(s))

\* the five schemes of the ID3v2 text encodings: [sel, bytes of s]
Schemes == {"latin1", "utf16-bom-le", "utf16-bom-be", "utf16be", "utf8"}

SchemeSel(k) ==
  CASE k = "latin1" -> encISO8859_1
    [] k = "utf16-bom-le" -> encUTF16_BOM
    [] k = "utf16-bom-be" -> encUTF16_BOM
    [] k = "utf16be" -> encUTF16BE
    [] k = "utf8" -> encUTF8

SchemeBytes(k, s) ==
  CASE k = "latin1" -> s
    [] k = "utf16-bom-le" -> <<255, 254>> \o EncodeUTF16LE(s)
    [] k = "utf16-bom-be" -> <<254, 255>> \o EncodeUTF16BE(s)
    [] k = "utf16be" -> EncodeUTF16BE(s)
    [] k = "utf8" -> EncodeUTF8(s)

SchemePoints(k) == IF k = "latin1" THEN Latin1Points ELSE BMPPoints

NoOut == [s |-> <<>>, err |-> "not called"]

----------------------------------------------------------------------------
\* Header parsing.

Magic == <<73, 68, 51>>

\* io.ReadFull / binary.Read of n bytes (n a number) from source s at offset
\* off: the error of a short read, and the offset after it
ShortReadErr(s, off, n) ==
  IF n = 0 \/ off + n <= Len(s) THEN ""
  ELSE IF off >= Len(s) THEN "EOF" ELSE "ErrUnexpectedEOF"

\* whether the n bytes (n a uint32) from offset off are all in source s
SrcHas(s, off, n) == U32Le(n, U32(Len(s) - off))

\* readHeader(r): [h, padding, err, off], off the bytes of s consumed
readHeader(s) ==
  LET none == [Major |-> 0, Minor |-> 0, Flags |-> 0, Size |-> U32(0)]
      fail(e, off) == [h |-> none, padding |-> U32(0), err |-> e, off |-> off]
  IN
  IF Len(s) < 10 THEN fail(ShortReadErr(s, 0, 10), Len(s))
  ELSE IF SubSeq(s, 1, 3) # Magic THEN fail("ErrBadHeader", 10)
  ELSE
    LET major == s[4]
        flags == s[6]
        size  == synchsafe32(U32Bytes(s[7], s[8], s[9], s[10]))
        hd(sz) == [Major |-> major, Minor |-> s[5], Flags |-> flags, Size |-> sz]
    IN
    IF ~HasBit(flags, flagExtendedHeader)
    THEN [h |-> hd(size), padding |-> U32(0), err |-> "", off |-> 10]
    ELSE IF major = 2 THEN fail("ErrUnknownFlag", 10)
    ELSE IF major = 3 THEN
      IF Len(s) < 20 THEN fail(ShortReadErr(s, 10, 10), Len(s))
      ELSE
        LET hhSize  == U32Bytes(s[11], s[12], s[13], s[14])
            padSize == U32Bytes(s[17], s[18], s[19], s[20])
            crc     == U32Sub(hhSize, U32(6))
            esize   == U32Add(hhSize, U32(4))
        IN  IF U32Lt(U32(6), hhSize) /\ ~SrcHas(s, 20, crc)
            THEN fail("EOF", Len(s))
            ELSE [h |-> hd(U32Sub(U32Sub(size, padSize), esize)),
                  padding |-> padSize, err |-> "",
                  off |-> IF U32Lt(U32(6), hhSize) THEN 20 + ToNat(crc) ELSE 20]
    ELSE IF major = 4 THEN
      IF Len(s) < 16 THEN fail(ShortReadErr(s, 10, 6), Len(s))
      ELSE
        LET hhSize == synchsafe32(U32Bytes(s[11], s[12], s[13], s[14]))
            rest   == U32Sub(hhSize, U32(6))
        IN  IF ~SrcHas(s, 16, rest)
            THEN fail(IF Len(s) = 16 THEN "EOF" ELSE "ErrUnexpectedEOF", Len(s))
            ELSE [h |-> hd(U32Sub(size, hhSize)), padding |-> U32(0), err |-> "",
                  off |-> 16 + ToNat(rest)]
    ELSE [h |-> hd(size), padding |-> U32(0), err |-> "", off |-> 10]

----------------------------------------------------------------------------
\* Frame scanning.

\* ^[A-Z0-9]+\x00*$
IsAlNum(c) == (c >= 65 /\ c <= 90) \/ (c >= 48 /\ c <= 57)

validFrameName(name) ==
  \E k \in 1..Len(name) :
    /\ \A i \in 1..k : IsAlNum(name[i])
    /\ \A i \in (k + 1)..Len(name) : name[i] = 0

TXXX == <<84, 88, 88, 88>>
APIC == <<65, 80, 73, 67>>
PIC == <<80, 73, 67>>
PRIV == <<80, 82, 73, 86>>
COMM == <<67, 79, 77, 77>>

IDWidth(hd) == IF hd.Major = 2 THEN 3 ELSE 4

headerSize(hd) == IF hd.Major = 2 THEN 6 ELSE 10

\* bytes the reader over tg still holds at offset off
Avail(tg, off) == U32Sub(BufLen(tg), off)

\* a reader that hands out n bytes wherever it stands, the end of its buffer
\* no limit to it
ReadPastEnd(tg, off, n) ==
  [buf |-> BufTake(tg, off, n), err |-> "", rr |-> U32Add(off, n)]

\* io.ReadFull(rr, n bytes), n a uint32: [err, buf, rr]
ReadFull(tg, off, n) ==
  IF U32Le(n, Avail(tg, off))
  THEN [err |-> "", buf |-> BufTake(tg, off, n), rr |-> U32Add(off, n)]
  ELSE [err |-> IF IsZero(Avail(tg, off)) THEN "EOF" ELSE "ErrUnexpectedEOF",
        buf |-> Mk(<<>>), rr |-> BufLen(tg)]

\* make(map[string]string)
EmptyMap == [k \in {} |-> <<>>]

\* the state of readFrames on entry; map values are buffers [d, z]
ScanStart(hd) ==
  [pc |-> "frameloop", rr |-> U32(0), pos |-> U32(0), frameSize |-> U32(0),
   frameID |-> Zeros(IDWidth(hd)), frames |-> EmptyMap, txxx |-> EmptyMap,
   err |-> ""]

\* readFrames returns the error e, or panics
ScanFail(st, e, off) ==
  [st EXCEPT !.pc = IF e = "panic" THEN "panic" ELSE "error", !.err = e, !.rr = off]

\* a store that keeps the value a key already has
MapPutIfAbsent(m, k, v) == [x \in DOMAIN m \cup {k} |-> IF x \in DOMAIN m THEN m[x] ELSE v]

\* m[k] = v
MapPut(m, k, v) == [x \in DOMAIN m \cup {k} |-> IF x = k THEN v ELSE m[x]]

\* The head of the frame loop: the loop condition and the read of the ID window.
StepFrameLoop(hd, tg, st) ==
  IF ~U32Lt(st.pos, hd.Size) THEN [st EXCEPT !.pc = "translate"]
  ELSE LET r == ReadFull(tg, st.rr, U32(IDWidth(hd)))
       IN  IF r.err = "EOF" THEN [st EXCEPT !.pc = "translate"]
           ELSE IF r.err # "" THEN ScanFail(st, r.err, r.rr)
           ELSE [st EXCEPT !.pc = "recover", !.rr = r.rr,
                           !.frameID = BufMat(r.buf, IDWidth(hd))]


\* var txxxEquiv: TXXX description -> canonical frame ID (byte strings).
txxxEquiv ==
     (<<65, 76, 66, 85, 77>> :> <<84, 65, 76, 66>>)  \* "ALBUM": "TALB"
  @@ (<<66, 80, 77>> :> <<84, 66, 80, 77>>)  \* "BPM": "TBPM"
  @@ (<<67, 79, 77, 80, 79, 83, 69, 82>> :> <<84, 67, 79, 77>>)  \* "COMPOSER": "TCOM"
  @@ (<<71, 69, 78, 82, 69>> :> <<84, 67, 79, 78>>)  \* "GENRE": "TCON"
  @@ (<<67, 79, 80, 89, 82, 73, 71, 72, 84>> :> <<84, 67, 79, 80>>)  \* "COPYRIGHT": "TCOP"
  @@ (<<69, 78, 67, 79, 68, 73, 78, 71, 84, 73, 77, 69>> :> <<84, 68, 69, 78>>)  \* "ENCODINGTIME": "TDEN"
  @@ (<<80, 76, 65, 89, 76, 73, 83, 84, 68, 69, 76, 65, 89>> :> <<84, 68, 76, 89>>)  \* "PLAYLISTDELAY": "TDLY"
  @@ (<<79, 82, 73, 71, 73, 78, 65, 76, 68, 65, 84, 69>> :> <<84, 68, 79, 82>>)  \* "ORIGINALDATE": "TDOR"
  @@ (<<68, 65, 84, 69>> :> <<84, 68, 82, 67>>)  \* "DATE": "TDRC"
  @@ (<<82, 69, 76, 69, 65, 83, 69, 68, 65, 84, 69>> :> <<84, 68, 82, 76>>)  \* "RELEASEDATE": "TDRL"
  @@ (<<84, 65, 71, 71, 73, 78, 71, 68, 65, 84, 69>> :> <<84, 68, 84, 71>>)  \* "TAGGINGDATE": "TDTG"
  @@ (<<69, 78, 67, 79, 68, 69, 68, 66, 89>> :> <<84, 69, 78, 67>>)  \* "ENCODEDBY": "TENC"
  @@ (<<76, 89, 82, 73, 67, 73, 83, 84>> :> <<84, 69, 88, 84>>)  \* "LYRICIST": "TEXT"
  @@ (<<70, 73, 76, 69, 84, 89, 80, 69>> :> <<84, 70, 76, 84>>)  \* "FILETYPE": "TFLT"
  @@ (<<67, 79, 78, 84, 69, 78, 84, 71, 82, 79, 85, 80>> :> <<84, 73, 84, 49>>)  \* "CONTENTGROUP": "TIT1"
  @@ (<<84, 73, 84, 76, 69>> :> <<84, 73, 84, 50>>)  \* "TITLE": "TIT2"
  @@ (<<83, 85, 66, 84, 73, 84, 76, 69>> :> <<84, 73, 84, 51>>)  \* "SUBTITLE": "TIT3"
  @@ (<<73, 78, 73, 84, 73, 65, 76, 75, 69, 89>> :> <<84, 75, 69, 89>>)  \* "INITIALKEY": "TKEY"
  @@ (<<76, 65, 78, 71, 85, 65, 71, 69>> :> <<84, 76, 65, 78>>)  \* "LANGUAGE": "TLAN"
  @@ (<<76, 69, 78, 71, 84, 72>> :> <<84, 76, 69, 78>>)  \* "LENGTH": "TLEN"
  @@ (<<77, 69, 68, 73, 65>> :> <<84, 77, 69, 68>>)  \* "MEDIA": "TMED"
  @@ (<<77, 79, 79, 68>> :> <<84, 77, 79, 79>>)  \* "MOOD": "TMOO"
  @@ (<<79, 82, 73, 71, 73, 78, 65, 76, 65, 76, 66, 85, 77>> :> <<84, 79, 65, 76>>)  \* "ORIGINALALBUM": "TOAL"
  @@ (<<79, 82, 73, 71, 73, 78, 65, 76, 70, 73, 76, 69, 78, 65, 77, 69>> :> <<84, 79, 70, 78>>)  \* "ORIGINALFILENAME": "TOFN"
  @@ (<<79, 82, 73, 71, 73, 78, 65, 76, 76, 89, 82, 73, 67, 73, 83, 84>> :> <<84, 79, 76, 89>>)  \* "ORIGINALLYRICIST": "TOLY"
  @@ (<<79, 82, 73, 71, 73, 78, 65, 76, 65, 82, 84, 73, 83, 84>> :> <<84, 79, 80, 69>>)  \* "ORIGINALARTIST": "TOPE"
  @@ (<<79, 87, 78, 69, 82>> :> <<84, 79, 87, 78>>)  \* "OWNER": "TOWN"
  @@ (<<65, 82, 84, 73, 83, 84>> :> <<84, 80, 69, 49>>)  \* "ARTIST": "TPE1"
  @@ (<<65, 76, 66, 85, 77, 65, 82, 84, 73, 83, 84>> :> <<84, 80, 69, 50>>)  \* "ALBUMARTIST": "TPE2"
  @@ (<<67, 79, 78, 68, 85, 67, 84, 79, 82>> :> <<84, 80, 69, 51>>)  \* "CONDUCTOR": "TPE3"
  @@ (<<82, 69, 77, 73, 88, 69, 82>> :> <<84, 80, 69, 52>>)  \* "REMIXER": "TPE4"
  @@ (<<68, 73, 83, 67, 78, 85, 77, 66, 69, 82>> :> <<84, 80, 79, 83>>)  \* "DISCNUMBER": "TPOS"
  @@ (<<80, 82, 79, 68, 85, 67, 69, 68, 78, 79, 84, 73, 67, 69>> :> <<84, 80, 82, 79>>)  \* "PRODUCEDNOTICE": "TPRO"
  @@ (<<76, 65, 66, 69, 76>> :> <<84, 80, 85, 66>>)  \* "LABEL": "TPUB"
  @@ (<<84, 82, 65, 67, 75, 78, 85, 77, 66, 69, 82>> :> <<84, 82, 67, 75>>)  \* "TRACKNUMBER": "TRCK"
  @@ (<<82, 65, 68, 73, 79, 83, 84, 65, 84, 73, 79, 78>> :> <<84, 82, 83, 78>>)  \* "RADIOSTATION": "TRSN"
  @@ (<<82, 65, 68, 73, 79, 83, 84, 65, 84, 73, 79, 78, 79, 87, 78, 69, 82>> :> <<84, 82, 83, 79>>)  \* "RADIOSTATIONOWNER": "TRSO"
  @@ (<<65, 76, 66, 85, 77, 83, 79, 82, 84>> :> <<84, 83, 79, 65>>)  \* "ALBUMSORT": "TSOA"
  @@ (<<65, 82, 84, 73, 83, 84, 83, 79, 82, 84>> :> <<84, 83, 79, 80>>)  \* "ARTISTSORT": "TSOP"
  @@ (<<84, 73, 84, 76, 69, 83, 79, 82, 84>> :> <<84, 83, 79, 84>>)  \* "TITLESORT": "TSOT"
  @@ (<<65, 76, 66, 85, 77, 65, 82, 84, 73, 83, 84, 83, 79, 82, 84>> :> <<84, 83, 79, 50>>)  \* "ALBUMARTISTSORT": "TSO2"
  @@ (<<73, 83, 82, 67>> :> <<84, 83, 82, 67>>)  \* "ISRC": "TSRC"
  @@ (<<69, 78, 67, 79, 68, 73, 78, 71>> :> <<84, 83, 83, 69>>)  \* "ENCODING": "TSSE"

\* var v22Equiv: v2.2 3-character ID -> v2.3/v2.4 4-character ID (byte strings).
v22Equiv ==
     (<<66, 85, 70>> :> <<82, 66, 85, 70>>)  \* "BUF": "RBUF"
  @@ (<<67, 78, 84>> :> <<80, 67, 78, 84>>)  \* "CNT": "PCNT"
  @@ (<<67, 79, 77>> :> <<67, 79, 77, 77>>)  \* "COM": "COMM"
  @@ (<<67, 82, 65>> :> <<65, 69, 78, 67>>)  \* "CRA": "AENC"
  @@ (<<69, 84, 67>> :> <<69, 84, 67, 79>>)  \* "ETC": "ETCO"
  @@ (<<71, 69, 79>> :> <<71, 69, 79, 66>>)  \* "GEO": "GEOB"
  @@ (<<73, 80, 76>> :> <<84, 73, 80, 76>>)  \* "IPL": "TIPL"
  @@ (<<77, 67, 73>> :> <<77, 67, 68, 73>>)  \* "MCI": "MCDI"
  @@ (<<77, 76, 76>> :> <<77, 76, 76, 84>>)  \* "MLL": "MLLT"
  @@ (<<80, 79, 80>> :> <<80, 79, 80, 77>>)  \* "POP": "POPM"
  @@ (<<82, 69, 86>> :> <<82, 86, 82, 66>>)  \* "REV": "RVRB"
  @@ (<<83, 76, 84>> :> <<83, 89, 76, 84>>)  \* "SLT": "SYLT"
  @@ (<<83, 84, 67>> :> <<83, 89, 84, 67>>)  \* "STC": "SYTC"
  @@ (<<84, 65, 76>> :> <<84, 65, 76, 66>>)  \* "TAL": "TALB"
  @@ (<<84, 66, 80>> :> <<84, 66, 80, 77>>)  \* "TBP": "TBPM"
  @@ (<<84, 67, 77>> :> <<84, 67, 79, 77>>)  \* "TCM": "TCOM"
  @@ (<<84, 67, 79>> :> <<84, 67, 79, 78>>)  \* "TCO": "TCON"
  @@ (<<84, 67, 80>> :> <<84, 67, 77, 80>>)  \* "TCP": "TCMP"
  @@ (<<84, 67, 82>> :> <<84, 67, 79, 80>>)  \* "TCR": "TCOP"
  @@ (<<84, 68, 89>> :> <<84, 68, 76, 89>>)  \* "TDY": "TDLY"
  @@ (<<84, 69, 78>> :> <<84, 69, 78, 67>>)  \* "TEN": "TENC"
  @@ (<<84, 70, 84>> :> <<84, 70, 76, 84>>)  \* "TFT": "TFLT"
  @@ (<<84, 75, 69>> :> <<84, 75, 69, 89>>)  \* "TKE": "TKEY"
  @@ (<<84, 76, 65>> :> <<84, 76, 65, 78>>)  \* "TLA": "TLAN"
  @@ (<<84, 76, 69>> :> <<84, 76, 69, 78>>)  \* "TLE": "TLEN"
  @@ (<<84, 77, 84>> :> <<84, 77, 69, 68>>)  \* "TMT": "TMED"
  @@ (<<84, 79, 65>> :> <<84, 79, 65, 76>>)  \* "TOA": "TOAL"
  @@ (<<84, 79, 70>> :> <<84, 79, 70, 78>>)  \* "TOF": "TOFN"
  @@ (<<84, 79, 76>> :> <<84, 79, 76, 89>>)  \* "TOL": "TOLY"
  @@ (<<84, 79, 82>> :> <<84, 68, 79, 82>>)  \* "TOR": "TDOR"
  @@ (<<84, 79, 84>> :> <<84, 79, 65, 76>>)  \* "TOT": "TOAL"
  @@ (<<84, 80, 49>> :> <<84, 80, 69, 49>>)  \* "TP1": "TPE1"
  @@ (<<84, 80, 50>> :> <<84, 80, 69, 50>>)  \* "TP2": "TPE2"
  @@ (<<84, 80, 51>> :> <<84, 80, 69, 51>>)  \* "TP3": "TPE3"
  @@ (<<84, 80, 52>> :> <<84, 80, 69, 52>>)  \* "TP4": "TPE4"
  @@ (<<84, 80, 65>> :> <<84, 80, 79, 83>>)  \* "TPA": "TPOS"
  @@ (<<84, 80, 66>> :> <<84, 80, 85, 66>>)  \* "TPB": "TPUB"
  @@ (<<84, 82, 67>> :> <<84, 83, 82, 67>>)  \* "TRC": "TSRC"
  @@ (<<84, 82, 68>> :> <<84, 68, 82, 67>>)  \* "TRD": "TDRC"
  @@ (<<84, 82, 75>> :> <<84, 82, 67, 75>>)  \* "TRK": "TRCK"
  @@ (<<84, 83, 50>> :> <<84, 83, 79, 50>>)  \* "TS2": "TSO2"
  @@ (<<84, 83, 65>> :> <<84, 83, 79, 65>>)  \* "TSA": "TSOA"
  @@ (<<84, 83, 67>> :> <<84, 83, 79, 67>>)  \* "TSC": "TSOC"
  @@ (<<84, 83, 80>> :> <<84, 83, 79, 80>>)  \* "TSP": "TSOP"
  @@ (<<84, 83, 83>> :> <<84, 83, 83, 69>>)  \* "TSS": "TSSE"
  @@ (<<84, 83, 84>> :> <<84, 83, 79, 84>>)  \* "TST": "TSOT"
  @@ (<<84, 84, 49>> :> <<84, 73, 84, 49>>)  \* "TT1": "TIT1"
  @@ (<<84, 84, 50>> :> <<84, 73, 84, 50>>)  \* "TT2": "TIT2"
  @@ (<<84, 84, 51>> :> <<84, 73, 84, 51>>)  \* "TT3": "TIT3"
  @@ (<<84, 88, 84>> :> <<84, 79, 76, 89>>)  \* "TXT": "TOLY"
  @@ (<<84, 88, 88>> :> <<84, 88, 88, 88>>)  \* "TXX": "TXXX"
  @@ (<<84, 89, 69>> :> <<84, 68, 82, 67>>)  \* "TYE": "TDRC"
  @@ (<<85, 70, 73>> :> <<85, 70, 73, 68>>)  \* "UFI": "UFID"
  @@ (<<85, 76, 84>> :> <<85, 83, 76, 84>>)  \* "ULT": "USLT"
  @@ (<<87, 65, 70>> :> <<87, 79, 65, 70>>)  \* "WAF": "WOAF"
  @@ (<<87, 65, 82>> :> <<87, 79, 65, 82>>)  \* "WAR": "WOAR"
  @@ (<<87, 65, 83>> :> <<87, 79, 65, 83>>)  \* "WAS": "WOAS"
  @@ (<<87, 67, 77>> :> <<87, 67, 79, 77>>)  \* "WCM": "WCOM"
  @@ (<<87, 67, 80>> :> <<87, 67, 79, 80>>)  \* "WCP": "WCOP"
  @@ (<<87, 80, 66>> :> <<87, 80, 85, 66>>)  \* "WPB": "WPUB"
  @@ (<<87, 88, 88>> :> <<87, 88, 88, 88>>)  \* "WXX": "WXXX"

\* The padding recovery loop's condition: the window is no frame name and the
\* counter is below the size.
InPadding(hd, st) == ~validFrameName(st.frameID) /\ U32Lt(st.pos, hd.Size)

\* a padding recovery turn that looks at the next byte and leaves it in the
\* reader
peekPadding(hd, tg, st) ==
  IF IsZero(Avail(tg, st.rr)) THEN [st EXCEPT !.pc = "translate"]
  ELSE [st EXCEPT !.frameID = Tail(st.frameID) \o <<BufAt(tg, ToNat(st.rr) + 1)>>,
                  !.pos = U32Add(st.pos, U32(1))]

\* One turn of the padding recovery loop. Where the window is all zero and
\* the reader is in the buffer's zero tail, every turn left reads 0x00 and
\* leaves the window invalid: they are taken at once, up to the turn that
\* ends the scan (the counter reaches the size, or ReadByte meets EOF).
StepSkipPadding(hd, tg, st) ==
  IF st.frameID = Zeros(Len(st.frameID)) /\ U32Le(U32(Len(tg.d)), st.rr)
  THEN LET left == U32Sub(hd.Size, st.pos)
           av   == Avail(tg, st.rr)
           k    == IF U32Lt(av, left) THEN av ELSE left
       IN  [st EXCEPT !.pc = "translate", !.pos = U32Add(st.pos, k),
                      !.rr = U32Add(st.rr, k)]
  ELSE IF IsZero(Avail(tg, st.rr)) THEN [st EXCEPT !.pc = "translate"]
  ELSE [st EXCEPT !.frameID = Tail(st.frameID) \o <<BufAt(tg, ToNat(st.rr) + 1)>>,
                  !.pos = U32Add(st.pos, U32(1)),
                  !.rr = U32Add(st.rr, U32(1))]

\* zlib.NewReader(rr): the two header bytes are read and checked; a preset
\* dictionary is refused after its four-byte checksum is read. [err, rr]
zlibNewReader(tg, off) ==
  LET r == ReadFull(tg, off, U32(2))
      m == BufMat(r.buf, 2)
  IN  IF r.err # "" THEN [err |-> "ErrUnexpectedEOF", rr |-> r.rr]
      ELSE IF m[1] % 16 # 8 \/ m[1] \div 16 > 7 \/ (m[1] * 256 + m[2]) % 31 # 0
      THEN [err |-> "zlib.ErrHeader", rr |-> r.rr]
      ELSE IF HasBit(m[2], 32)
      THEN LET c == ReadFull(tg, r.rr, U32(4))
           IN  [err |-> IF c.err # "" THEN "ErrUnexpectedEOF" ELSE "zlib.ErrDictionary",
                rr |-> c.rr]
      ELSE [err |-> "", rr |-> r.rr]

\* what the frame header leaves: [err, frameSize, unsynch, rr]
FrameHeaderOut(e, sz, u, o) == [err |-> e, frameSize |-> sz, unsynch |-> u, rr |-> o]

\* v2.2: the 3 size bytes m read by r
frameHeader22(r, m) ==
  IF r.err # "" THEN FrameHeaderOut(r.err, U32(0), FALSE, r.rr)
  ELSE FrameHeaderOut("", U32Bytes(0, m[1], m[2], m[3]), FALSE, r.rr)

\* the frame header when no flag stops the frame
frameHeaderPlain(fhFlags, size0, size1, unsynch, dli, r, d, z, off1) ==
  IF r.err # "" THEN FrameHeaderOut(r.err, U32(0), FALSE, r.rr)
  ELSE FrameHeaderOut("", size1, unsynch, off1)

\* v2.3 and v2.4, from the flags on: r read the header, d the data length
\* indicator, z is the zlib reader opened at off1
frameHeaderFlags(fhFlags, size0, size1, unsynch, dli, r, d, z, off1) ==
  IF r.err # "" THEN FrameHeaderOut(r.err, U32(0), FALSE, r.rr)
  ELSE IF HasBit(fhFlags, frameEncrypted)
  THEN FrameHeaderOut("ErrEncryption", size0, FALSE, r.rr)
  ELSE IF dli /\ d.err # ""
  THEN FrameHeaderOut(IF d.err = "EOF" THEN "unexpected eof in frame header" ELSE d.err,
                      size0, unsynch, d.rr)
  ELSE IF HasBit(fhFlags, frameCompressed)
  THEN FrameHeaderOut(z.err, size1, unsynch, z.rr)
  ELSE FrameHeaderOut("", size1, unsynch, off1)

\* v2.3 and v2.4, the data length indicator: 4 bytes read and dropped, 4 off
\* the frame size
frameHeaderDLI(hd, tg, fhFlags, size0, dli, r, d) ==
  frameHeaderFlags(fhFlags, size0,
                   IF dli THEN U32Sub(size0, U32(4)) ELSE size0,
                   HasBit(hd.Flags, flagUnsynchronisation)
                     \/ HasBit(fhFlags, frameUnsynchronisation),
                   dli, r, d,
                   zlibNewReader(tg, IF dli THEN d.rr ELSE r.rr),
                   IF dli THEN d.rr ELSE r.rr)

\* v2.3 and v2.4: the 6 bytes m read by r, size (synchsafe from v2.4) and flags
frameHeader34(hd, tg, r, m) ==
  frameHeaderDLI(hd, tg, m[5] * 256 + m[6],
                 IF hd.Major >= 4 THEN synchsafe32(U32Bytes(m[1], m[2], m[3], m[4]))
                 ELSE U32Bytes(m[1], m[2], m[3], m[4]),
                 HasBit(m[5] * 256 + m[6], frameDataLengthIndicator),
                 r, ReadFull(tg, r.rr, U32(4)))

frameHeaderBytes(hd, tg, r) ==
  IF hd.Major = 2 THEN frameHeader22(r, BufMat(r.buf, 3))
  ELSE frameHeader34(hd, tg, r, BufMat(r.buf, 6))

\* The frame header after the ID: size, flags, data length indicator and the
\* zlib reader. [err, frameSize, unsynch, rr]
readFrameHeader(hd, tg, off) ==
  frameHeaderBytes(hd, tg, ReadFull(tg, off, U32(IF hd.Major = 2 THEN 3 ELSE 6)))

\* the ID as the frame carries it
keepID(id) == id

\* the key a frame is stored under: v22Equiv's for a 3-character ID it holds
storeKey(id) == IF Len(id) = 3 /\ id \in DOMAIN v22Equiv THEN v22Equiv[id] ELSE id

\* s[:j] for the first 0x00 of s, s when it has none
CutAtNul(s) ==
  LET j == IndexNul(s, 1) IN IF j > 0 THEN SubSeq(s, 1, j - 1) ELSE s

\* The body of a COMM frame: [s, err]
decodeCOMM(buf, unsynch) ==
  IF IsZero(BufLen(buf)) THEN [s |-> <<>>, err |-> "EOF"]
  ELSE LET enc  == BufAt(buf, 1)
           len1 == U32Sub(BufLen(buf), U32(1))
           b    == IF U32Lt(len1, U32(3)) THEN Mk(<<>>) ELSE BufDrop(buf, 4)
       IN  decodeTextFrame(enc, readTerminatedString(enc, b).rest, unsynch)

\* The switch on the frame ID: body decoded and stored in next, the state the
\* loop's post statement leaves, or the error returned.
dispatchFrame(tg, st, fh, body, next) ==
  LET id == st.frameID
      fail(e) == ScanFail(st, e, body.rr)
      store(s) == [next EXCEPT !.frames = MapPut(st.frames, storeKey(id), s)]
      put(t) == IF t.err # "" THEN fail(t.err) ELSE store(Mk(t.s))
      putTXXX(t) == IF t.err = "panic" THEN fail("panic")
                    ELSE [next EXCEPT !.txxx = t.txxx]
      putText(t) == IF t.err # "" THEN fail(t.err) ELSE store(Mk(CutAtNul(t.s)))
  IN
  IF id[1] = 84 THEN
    IF body.err # "" THEN fail(body.err)
    ELSE IF id = TXXX THEN putTXXX(decodeTXXX(st.txxx, body.buf, fh.unsynch))
    ELSE IF IsZero(fh.frameSize) THEN fail("panic")
    ELSE putText(decodeTextFrame(BufAt(body.buf, 1), BufDrop(body.buf, 1),
                                 fh.unsynch))
  ELSE IF id \in {APIC, PIC, PRIV} THEN
    [next EXCEPT !.rr = IF body.err = "" THEN body.rr ELSE BufLen(tg)]
  ELSE IF body.err # "" THEN fail(body.err)
  ELSE IF id = COMM THEN put(decodeCOMM(body.buf, fh.unsynch))
  ELSE store(body.buf)

\* the frame body read, and the loop's post statement
readFrameBody(hd, tg, st, fh, body) ==
  dispatchFrame(tg, st, fh, body,
                [st EXCEPT !.pc = "frameloop", !.frameSize = fh.frameSize,
                           !.rr = body.rr,
                           !.pos = U32Add(st.pos, U32Add(fh.frameSize,
                                                         U32(headerSize(hd))))])

readFrameAfterHeader(hd, tg, st, fh) ==
  IF fh.err # "" THEN ScanFail(st, fh.err, fh.rr)
  ELSE readFrameBody(hd, tg, st, fh, ReadFull(tg, fh.rr, fh.frameSize))

\* One pass of the frame loop from the end of padding recovery: the frame's
\* header and body, the store into the map, and the loop's post statement.
StepReadFrame(hd, tg, st) ==
  IF ~U32Lt(st.pos, hd.Size) THEN [st EXCEPT !.pc = "translate"]
  ELSE readFrameAfterHeader(hd, tg, st, readFrameHeader(hd, tg, st.rr))

\* one step of readFrames' loop
ScanStep(hd, tg, st) ==
  IF st.pc = "frameloop" THEN StepFrameLoop(hd, tg, st)
  ELSE IF InPadding(hd, st) THEN StepSkipPadding(hd, tg, st)
  ELSE StepReadFrame(hd, tg, st)

\* a merge that stores every TXXX value under its description
mergeByDescription(fr, tx) ==
  [k \in DOMAIN fr \cup DOMAIN tx |-> IF k \in DOMAIN tx THEN tx[k] ELSE fr[k]]

\* translateTXXXFrames(frames, txxx). No two descriptions of txxxEquiv share a
\* frame ID, so the order Go ranges over txxx in does not show.
translateTXXXFrames(fr, tx) ==
  LET hit == {k \in DOMAIN tx : k \in DOMAIN txxxEquiv}
      ids == {txxxEquiv[k] : k \in hit}
  IN  [id \in DOMAIN fr \cup ids |->
         IF id \in ids
         THEN tx[CHOOSE k \in hit : txxxEquiv[k] = id]
         ELSE fr[id]]

\* readFrames from state st to its return
RECURSIVE RunScan(_, _, _)
RunScan(hd, tg, st) ==
  IF st.pc \in {"frameloop", "recover"} THEN RunScan(hd, tg, ScanStep(hd, tg, st))
  ELSE IF st.pc = "translate"
  THEN [st EXCEPT !.pc = "scanned", !.frames = translateTXXXFrames(st.frames, st.txxx)]
  ELSE st

----------------------------------------------------------------------------
\* The tag assembler.

\* every character but the ten digits
notDigit(r) == r < 48 \/ r > 57

\* unicode.IsPunct, for the code points below U+0100
IsPunct(r) ==
  r \in {33, 34, 35, 37, 38, 39, 40, 41, 42, 44, 45, 46, 47, 58, 59, 63, 64,
         91, 92, 93, 95, 123, 125, 161, 167, 171, 182, 183, 187, 191}

\* The first rune of the UTF-8 string s: [r, w], its code point and width in
\* bytes; a byte that starts no two- or three-byte rune is U+FFFD of width 1.
FirstRune(s) ==
  LET b == s[1]
      cont(i) == i <= Len(s) /\ s[i] >= 128 /\ s[i] < 192
  IN  IF b < 128 THEN [r |-> b, w |-> 1]
      ELSE IF b >= 194 /\ b < 224 /\ cont(2)
      THEN [r |-> (b - 192) * 64 + (s[2] - 128), w |-> 2]
      ELSE IF b >= 224 /\ b < 240 /\ cont(2) /\ cont(3)
      THEN [r |-> (b - 224) * 4096 + (s[2] - 128) * 64 + (s[3] - 128), w |-> 3]
      ELSE [r |-> 65533, w |-> 1]

\* strings.FieldsFunc(s, unicode.IsPunct): cur is the field being read
RECURSIVE FieldsPunct(_, _)
FieldsPunct(s, cur) ==
  IF s = <<>> THEN (IF cur = <<>> THEN <<>> ELSE <<cur>>)
  ELSE LET f == FirstRune(s)
           rest == SubSeq(s, f.w + 1, Len(s))
       IN  IF IsPunct(f.r)
           THEN (IF cur = <<>> THEN <<>> ELSE <<cur>>) \o FieldsPunct(rest, <<>>)
           ELSE FieldsPunct(rest, cur \o SubSeq(s, 1, f.w))

RECURSIVE DigitsValue(_, _)
DigitsValue(s, acc) ==
  IF s = <<>> THEN acc ELSE DigitsValue(Tail(s), acc * 10 + (Head(s) - 48))

\* strconv.Atoi for a string of at most nine digits after its sign: [n, err]
Atoi(s) ==
  LET signed == s # <<>> /\ s[1] \in {43, 45}
      digits == IF signed THEN Tail(s) ELSE s
  IN  IF digits = <<>> \/ \E i \in 1..Len(digits) : digits[i] < 48 \/ digits[i] > 57
      THEN [n |-> 0, err |-> "strconv.ErrSyntax"]
      ELSE [n |-> IF signed /\ s[1] = 45 THEN 0 - DigitsValue(digits, 0)
                  ELSE DigitsValue(digits, 0),
            err |-> ""]

\* the first number of s alone: [n1, n2, err]
firstNumberOnly(s) ==
  LET arr == FieldsPunct(s, <<>>)
  IN  IF Len(arr) > 0 THEN [n1 |-> Atoi(arr[1]).n, n2 |-> 0, err |-> Atoi(arr[1]).err]
      ELSE [n1 |-> 0, n2 |-> 0, err |-> ""]

\* parseMultiNumber(s): [n1, n2, err]
parseMultiNumber(s) ==
  LET arr == FieldsPunct(s, <<>>)
      a1  == Atoi(arr[1])
      a2  == Atoi(arr[2])
  IN  IF Len(arr) > 0 /\ a1.err # "" THEN [n1 |-> a1.n, n2 |-> 0, err |-> a1.err]
      ELSE IF Len(arr) >= 2 /\ a2.err # "" THEN [n1 |-> a1.n, n2 |-> a2.n, err |-> a2.err]
      ELSE [n1 |-> IF Len(arr) > 0 THEN a1.n ELSE 0,
            n2 |-> IF Len(arr) >= 2 THEN a2.n ELSE 0, err |-> ""]

TPOS == <<84, 80, 79, 83>>
TRCK == <<84, 82, 67, 75>>

\* t.Frames[id], "" for a missing key; a value with a zero tail is spelled out
\* up to two of its zero bytes
FrameValue(fr, id) == IF id \in DOMAIN fr THEN Squash(fr[id]) ELSE <<>>

\* A time.Time as time.Parse builds it: year, month, day, hour, minute, second
\* and the offset of its zone from UTC in minutes. Fractions of a second are
\* read and not kept.
TimeOf(Y, M, D, hh, mm, ss, off) ==
  [Y |-> Y, M |-> M, D |-> D, h |-> hh, m |-> mm, s |-> ss, off |-> off]

\* time.Time{}
ZeroTime == TimeOf(1, 1, 1, 0, 0, 0, 0)

\* isDigit(s, i) of package time, i counted from 0
isDigit(s, i) == i + 1 <= Len(s) /\ s[i + 1] >= 48 /\ s[i + 1] <= 57

\* getnum(s, fixed): one or two digits off the front of s, two when fixed:
\* [n, rest, ok]
getnum(s, fixed) ==
  IF ~isDigit(s, 0) THEN [n |-> 0, rest |-> s, ok |-> FALSE]
  ELSE IF ~isDigit(s, 1)
  THEN (IF fixed THEN [n |-> 0, rest |-> s, ok |-> FALSE]
        ELSE [n |-> s[1] - 48, rest |-> Tail(s), ok |-> TRUE])
  ELSE [n |-> (s[1] - 48) * 10 + (s[2] - 48), rest |-> SubSeq(s, 3, Len(s)),
        ok |-> TRUE]

\* daysIn(m, year)
daysIn(M, Y) ==
  IF M = 2 THEN (IF Y % 4 = 0 /\ (Y % 100 # 0 \/ Y % 400 = 0) THEN 29 ELSE 28)
  ELSE IF M \in {4, 6, 9, 11} THEN 30 ELSE 31

\* the state of Parse: the value left to read, whether it matched so far, and
\* the fields read
ParseStart(s) == [v |-> s, ok |-> TRUE, tm |-> TimeOf(0, 1, 1, 0, 0, 0, 0)]
ParseFail(p) == [p EXCEPT !.ok = FALSE]

\* the number g read into field f, when it is within lo..hi
parseField(p, f, g, lo, hi) ==
  IF g.ok /\ g.n >= lo /\ g.n <= hi
  THEN [p EXCEPT !.v = g.rest, !.tm = [p.tm EXCEPT ![f] = g.n]]
  ELSE ParseFail(p)

\* the chunk "2006": four digits
parseYear(p) ==
  IF Len(p.v) < 4 \/ \E i \in 0..3 : ~isDigit(p.v, i) THEN ParseFail(p)
  ELSE [p EXCEPT !.v = SubSeq(p.v, 5, Len(p.v)),
                 !.tm = [p.tm EXCEPT !.Y = DigitsValue(SubSeq(p.v, 1, 4), 0)]]

\* the digits of a fraction of a second behind the seconds, which the layouts
\* here have no chunk for: n counts the bytes to drop
RECURSIVE fractionEnd(_, _)
fractionEnd(v, n) == IF isDigit(v, n) THEN fractionEnd(v, n + 1) ELSE n

\* the chunk "05": two digits, and a fraction when one follows
parseSecond(p) ==
  LET q == parseField(p, "s", getnum(p.v, TRUE), 0, 59)
  IN  IF q.ok /\ Len(q.v) >= 2 /\ q.v[1] \in {46, 44} /\ isDigit(q.v, 1)
      THEN [q EXCEPT !.v = SubSeq(q.v, fractionEnd(q.v, 2) + 1, Len(q.v))]
      ELSE q

\* the zone: sign, hours hr and minutes mn read from the value, rest left
parseOffset(p, sign, hr, mn, rest) ==
  IF ~hr.ok \/ ~mn.ok \/ sign \notin {43, 45} THEN ParseFail(p)
  ELSE [p EXCEPT !.v = rest,
                 !.tm = [p.tm EXCEPT !.off = IF sign = 45 THEN 0 - (hr.n * 60 + mn.n)
                                              ELSE hr.n * 60 + mn.n]]

\* the chunks "Z0700" and "Z07:00" (colon): Z, or a sign and four digits
parseZone(p, colon) ==
  IF p.v # <<>> /\ p.v[1] = 90 THEN [p EXCEPT !.v = Tail(p.v)]
  ELSE IF colon
  THEN (IF Len(p.v) < 6 THEN ParseFail(p)
        ELSE IF p.v[4] # 58 THEN ParseFail(p)
        ELSE parseOffset(p, p.v[1], getnum(SubSeq(p.v, 2, 3), TRUE),
                         getnum(SubSeq(p.v, 5, 6), TRUE), SubSeq(p.v, 7, Len(p.v))))
  ELSE IF Len(p.v) < 5 THEN ParseFail(p)
  ELSE parseOffset(p, p.v[1], getnum(SubSeq(p.v, 2, 3), TRUE),
                   getnum(SubSeq(p.v, 4, 5), TRUE), SubSeq(p.v, 6, Len(p.v)))

\* the bytes of the chunks that stand for themselves
Literals == [c \in {"-", "T", ":", "/", "."} |->
               CASE c = "-" -> 45 [] c = "T" -> 84 [] c = ":" -> 58
                 [] c = "/" -> 47 [] c = "." -> 46]

\* one chunk of a layout read off the value
parseChunk(tok, p) ==
  CASE tok = "2006" -> parseYear(p)
    [] tok = "01" -> parseField(p, "M", getnum(p.v, TRUE), 1, 12)
    [] tok = "02" -> parseField(p, "D", getnum(p.v, TRUE), 0, 99)
    [] tok = "15" -> parseField(p, "h", getnum(p.v, FALSE), 0, 23)
    [] tok = "04" -> parseField(p, "m", getnum(p.v, TRUE), 0, 59)
    [] tok = "05" -> parseSecond(p)
    [] tok = "Z0700" -> parseZone(p, FALSE)
    [] tok = "Z07:00" -> parseZone(p, TRUE)
    [] OTHER -> IF p.v # <<>> /\ p.v[1] = Literals[tok]
                THEN [p EXCEPT !.v = Tail(p.v)] ELSE ParseFail(p)

\* the chunks of the layout one after the other; at the end no text may be
\* left and the day must be one of its month
RECURSIVE parseChunks(_, _)
parseChunks(toks, p) ==
  IF ~p.ok THEN p
  ELSE IF toks = <<>>
  THEN (IF p.v # <<>> \/ p.tm.D < 1 \/ p.tm.D > daysIn(p.tm.M, p.tm.Y)
        THEN ParseFail(p) ELSE p)
  ELSE parseChunks(Tail(toks), parseChunk(Head(toks), p))

\* time.Parse(layout, s) for a layout given as its chunks: [tm, err]
timeParse(layout, s) ==
  IF parseChunks(layout, ParseStart(s)).ok
  THEN [tm |-> parseChunks(layout, ParseStart(s)).tm, err |-> ""]
  ELSE [tm |-> ZeroTime, err |-> "parsing time"]

layoutYear == <<"2006">>
layoutComposed == <<"2006", "02", "01", "15", "04">>

dateFormats ==
  << <<"2006", "-", "01", "-", "02", "T", "15", ":", "04", ":", "05", "Z0700">>,
     <<"2006", "-", "01", "-", "02", "T", "15", ":", "04", ":", "05", "Z07:00">>,
     <<"2006", "-", "01", "-", "02", "T", "15", ":", "04", ":", "05">>,
     <<"2006", "-", "01", "-", "02", "T", "15", ":", "04", "Z0700">>,
     <<"2006", "-", "01", "-", "02", "T", "15", ":", "04", "Z07:00">>,
     <<"2006", "-", "01", "-", "02", "T", "15", ":", "04">>,
     <<"2006", "-", "01", "-", "02", "T", "15">>,
     <<"2006", "-", "01", "-", "02">>,
     <<"2006", "-", "01">>,
     <<"2006">>,
     <<"2006", "/", "01", "/", "02">>,
     <<"2006", ".", "01", ".", "02">> >>

\* tryAllDateFormats(s), from the i-th layout on: the first layout that parses
\* s, or the error of the last one
RECURSIVE tryFormatsFrom(_, _)
tryFormatsFrom(s, i) ==
  IF timeParse(dateFormats[i], s).err = "" \/ i = Len(dateFormats)
  THEN timeParse(dateFormats[i], s)
  ELSE tryFormatsFrom(s, i + 1)

tryAllDateFormats(s) == tryFormatsFrom(s, 1)

TYER == <<84, 89, 69, 82>>
TDAT == <<84, 68, 65, 84>>
TIME == <<84, 73, 77, 69>>
TDRC == <<84, 68, 82, 67>>
TDRL == <<84, 68, 82, 76>>
TDOR == <<84, 68, 79, 82>>

\* the date frames from the oldest to the newest
dateFramesReversed == <<TYER, TIME, TDAT, TDOR, TDRL, TDRC>>

dateFrames == <<TDRC, TDRL, TDOR, TDAT, TIME, TYER>>

\* the loop over dateFrames when a value that no layout parses is an error
RECURSIVE bruteForceOrError(_, _)
bruteForceOrError(fr, i) ==
  IF i > Len(dateFrames) THEN [tm |-> ZeroTime, err |-> ""]
  ELSE IF dateFrames[i] \in DOMAIN fr
  THEN tryAllDateFormats(FrameValue(fr, dateFrames[i]))
  ELSE bruteForceOrError(fr, i + 1)

\* the loop over dateFrames from the i-th on: the first frame of the map
\* whose value a layout parses, or time.Time{} and no error
RECURSIVE bruteForce(_, _)
bruteForce(fr, i) ==
  IF i > Len(dateFrames) THEN [tm |-> ZeroTime, err |-> ""]
  ELSE IF dateFrames[i] \in DOMAIN fr
          /\ tryAllDateFormats(FrameValue(fr, dateFrames[i])).err = ""
  THEN tryAllDateFormats(FrameValue(fr, dateFrames[i]))
  ELSE bruteForce(fr, i + 1)

\* TYER with TDAT and TIME: year alone without TDAT, else the three composed
\* (TIME "0000" when it is empty) and year alone when that fails. [tm, err]
composeDate(yer, dat, tim) ==
  IF dat = <<>> THEN timeParse(layoutYear, yer)
  ELSE IF timeParse(layoutComposed,
                    yer \o dat \o (IF tim = <<>> THEN <<48, 48, 48, 48>> ELSE tim)).err = ""
  THEN timeParse(layoutComposed,
                 yer \o dat \o (IF tim = <<>> THEN <<48, 48, 48, 48>> ELSE tim))
  ELSE timeParse(layoutYear, yer)

\* parseDate(frames): [tm, err]
parseDate(fr) ==
  IF FrameValue(fr, TYER) # <<>>
     /\ composeDate(FrameValue(fr, TYER), FrameValue(fr, TDAT),
                    FrameValue(fr, TIME)).err = ""
  THEN composeDate(FrameValue(fr, TYER), FrameValue(fr, TDAT), FrameValue(fr, TIME))
  ELSE bruteForce(fr, 1)

\* no header was read
NoHeader == [Major |-> 0, Minor |-> 0, Flags |-> 0, Size |-> U32(0)]

\* no tag set was made
NoTags == [Header |-> NoHeader, disc |-> 0, TotalDiscs |-> 0, track |-> 0,
           TotalTracks |-> 0, date |-> ZeroTime]

\* makeTags(h, frames): [t, err]. The header, the numbers of TPOS and TRCK,
\* and the date.
makeTags(hd, fr) ==
  LET p == parseMultiNumber(FrameValue(fr, TPOS))
      k == parseMultiNumber(FrameValue(fr, TRCK))
      d == parseDate(fr)
  IN  IF FrameValue(fr, TPOS) # <<>> /\ p.err # "" THEN [t |-> NoTags, err |-> p.err]
      ELSE IF FrameValue(fr, TRCK) # <<>> /\ k.err # "" THEN [t |-> NoTags, err |-> k.err]
      ELSE IF d.err # "" THEN [t |-> NoTags, err |-> d.err]
      ELSE [t |-> [Header      |-> hd,
                   disc        |-> IF FrameValue(fr, TPOS) # <<>> THEN p.n1 ELSE 0,
                   TotalDiscs  |-> IF FrameValue(fr, TPOS) # <<>> THEN p.n2 ELSE 0,
                   track       |-> IF FrameValue(fr, TRCK) # <<>> THEN k.n1 ELSE 0,
                   TotalTracks |-> IF FrameValue(fr, TRCK) # <<>> THEN k.n2 ELSE 0,
                   date        |-> d.tm],
            err |-> ""]

----------------------------------------------------------------------------
\* Decode, step by step.

\* no Ogg Reader was made
NoReader == [pc |-> "none"]

\* tag := make([]byte, h.Size); io.ReadFull(br, tag), its error dropped: the
\* bytes the source still has, then zero bytes up to size
readTag(s, off, size) ==
  LET left == Len(s) - off
      n    == IF U32Lt(size, U32(left)) THEN ToNat(size) ELSE left
  IN  [d |-> SubSeq(s, off + 1, off + n), z |-> U32Sub(size, U32(n))]

\* readFrames' variables as one record, and back
ScanState ==
  [pc |-> pc, rr |-> rr, pos |-> pos, frameSize |-> frameSize,
   frameID |-> frameID, frames |-> frames, txxx |-> txxx, err |-> err]

SetScanState(st) ==
  /\ pc' = st.pc
  /\ rr' = st.rr
  /\ pos' = st.pos
  /\ frameSize' = st.frameSize
  /\ frameID' = st.frameID
  /\ frames' = st.frames
  /\ txxx' = st.txxx
  /\ err' = st.err

\* h, padding, err := readHeader(r)
ReadHeader ==
  /\ pc = "readHeader"
  /\ LET r == readHeader(src)
     IN  /\ h' = r.h
         /\ padding' = r.padding
         /\ srcOff' = r.off
         /\ err' = r.err
         /\ pc' = IF r.err = "" THEN "readTag" ELSE "error"
  /\ UNCHANGED <<src, tag, rr, pos, frameSize, frameID, frames, txxx, tags, gen, tf, ogg>>

\* The footer adjustment, the tag buffer and the entry of readFrames.
ReadTag ==
  /\ pc = "readTag"
  /\ LET footer == HasBit(h.Flags, flagFooterPresent)
         size   == IF footer THEN U32Sub(h.Size, U32(footerSize)) ELSE h.Size
         t      == readTag(src, srcOff, size)
     IN  /\ h' = [h EXCEPT !.Size = size]
         /\ padding' = IF footer THEN U32Add(padding, U32(footerSize)) ELSE padding
         /\ tag' = t
         /\ srcOff' = srcOff + Len(t.d)
         /\ SetScanState(ScanStart(h))
  /\ UNCHANGED <<src, tags, gen, tf, ogg>>

\* The head of readFrames' loop.
FrameLoop ==
  /\ pc = "frameloop"
  /\ SetScanState(StepFrameLoop(h, tag, ScanState))
  /\ UNCHANGED <<src, srcOff, h, padding, tag, tags, gen, tf, ogg>>

\* One turn of the padding recovery loop.
SkipPadding ==
  /\ pc = "recover"
  /\ InPadding(h, ScanState)
  /\ SetScanState(StepSkipPadding(h, tag, ScanState))
  /\ UNCHANGED <<src, srcOff, h, padding, tag, tags, gen, tf, ogg>>

\* The rest of the pass: the frame behind the ID in the window.
ReadFrame ==
  /\ pc = "recover"
  /\ ~InPadding(h, ScanState)
  /\ SetScanState(StepReadFrame(h, tag, ScanState))
  /\ UNCHANGED <<src, srcOff, h, padding, tag, tags, gen, tf, ogg>>

\* The end of readFrames.
TranslateTXXX ==
  /\ pc = "translate"
  /\ frames' = translateTXXXFrames(frames, txxx)
  /\ pc' = "discard"
  /\ UNCHANGED <<src, srcOff, h, padding, tag, rr, pos, frameSize, frameID, txxx,
                 err, tags, gen, tf, ogg>>

\* if padding > 0 { io.CopyN(ioutil.Discard, br, int64(padding)) }
DiscardPadding ==
  /\ pc = "discard"
  /\ IF IsZero(padding) THEN /\ pc' = "makeTags"
                             /\ UNCHANGED <<srcOff, err>>
     ELSE IF SrcHas(src, srcOff, padding)
          THEN /\ srcOff' = srcOff + ToNat(padding)
               /\ pc' = "makeTags"
               /\ UNCHANGED err
          ELSE /\ srcOff' = Len(src)
               /\ err' = "EOF"
               /\ pc' = "error"
  /\ UNCHANGED <<src, h, padding, tag, rr, pos, frameSize, frameID, frames, txxx,
                 tags, gen, tf, ogg>>

\* return makeTags(h, frames)
MakeTags ==
  /\ pc = "makeTags"
  /\ LET r == makeTags(h, frames)
     IN  /\ tags' = r.t
         /\ err' = r.err
         /\ pc' = IF r.err = "" THEN "done" ELSE "error"
  /\ UNCHANGED <<src, srcOff, h, padding, tag, rr, pos, frameSize, frameID, frames,
                 txxx, gen, tf, ogg>>

Next ==
  \/ ReadHeader
  \/ ReadTag
  \/ FrameLoop
  \/ SkipPadding
  \/ ReadFrame
  \/ TranslateTXXX
  \/ DiscardPadding
  \/ MakeTags

----------------------------------------------------------------------------
\* The inputs: sources built from a header, an optional extended header, a
\* sequence of segments (frames, stray bytes), null padding and the bytes
\* that follow the tag.

MaxSegs == 2
MaxPad == 5

\* the 4 bytes that synchsafe-encode n < 2^28
SynchsafeBytes(n) ==
  <<(n \div 2097152) % 128, (n \div 16384) % 128, (n \div 128) % 128, n % 128>>

\* the 4 bytes of n < 2^31, most significant first
BigEndian4(n) ==
  <<n \div 16777216, (n \div 65536) % 256, (n \div 256) % 256, n % 256>>

\* the terminator of a string under a scheme
SchemeTerm(k) == IF k \in {"latin1", "utf8"} THEN <<0>> ELSE <<0, 0>>

TIT2 == <<84, 73, 84, 50>>
TALB == <<84, 65, 76, 66>>
TPE1 == <<84, 80, 69, 49>>
WOAR == <<87, 79, 65, 82>>
TT2 == <<84, 84, 50>>
TP1 == <<84, 80, 49>>
TOA == <<84, 79, 65>>
TOT == <<84, 79, 84>>
TDA == <<84, 68, 65>>
TRK == <<84, 82, 75>>
COM == <<67, 79, 77>>
TXX == <<84, 88, 88>>
ULT == <<85, 76, 84>>

DescALBUM == <<65, 76, 66, 85, 77>>
DescTITLE == <<84, 73, 84, 76, 69>>
DescFOO == <<70, 79, 79>>

\* A segment: kind, frame ID, the size its header declares, its body bytes,
\* whether it is a well-formed frame, and what it says (scheme, description,
\* text as code points). Its header carries no frame flag unless FlagSeg sets
\* some.
Seg(kind, id, size, body, wf, scheme, desc, text) ==
  [kind |-> kind, id |-> id, size |-> size, body |-> body, wf |-> wf,
   scheme |-> scheme, desc |-> desc, text |-> text, flags |-> 0]

\* the segment g with the 16 bits f as the flags of its frame header
FlagSeg(g, f, wf) == [g EXCEPT !.flags = f, !.wf = wf]

\* a text frame: selector, the string, its terminator
TextSeg(id, k, s) ==
  LET body == <<SchemeSel(k)>> \o SchemeBytes(k, s) \o SchemeTerm(k)
  IN  Seg("text", id, Len(body), body, TRUE, k, <<>>, s)

\* a user-defined text frame: selector, description, terminator, value
TxxxSeg(id, k, desc, s) ==
  LET body == <<SchemeSel(k)>> \o SchemeBytes(k, desc) \o SchemeTerm(k)
              \o SchemeBytes(k, s)
  IN  Seg("txxx", id, Len(body), body, TRUE, k, desc, s)

\* a comment frame: selector, language, description, terminator, text
CommSeg(id, k, desc, s) ==
  LET body == <<SchemeSel(k)>> \o <<101, 110, 103>> \o SchemeBytes(k, desc)
              \o SchemeTerm(k) \o SchemeBytes(k, s)
  IN  Seg("comm", id, Len(body), body, TRUE, k, desc, s)

\* a frame of another kind, its body kept as it is or skipped
RawSeg(kind, id, body) == Seg(kind, id, Len(body), body, TRUE, "", <<>>, body)

\* a frame that is not well-formed: an undefined selector, or a declared size
\* beyond its body
BadSeg(kind, id, size, body) == Seg(kind, id, size, body, FALSE, "", <<>>, <<>>)

\* bytes that are no frame
JunkSeg(bytes) == Seg("junk", <<>>, 0, bytes, FALSE, "", <<>>, <<>>)

Catalog34 ==
  { TextSeg(TIT2, "latin1", <<72, 105>>),
    TextSeg(TIT2, "latin1", <<105>>),
    TextSeg(TALB, "latin1", <<72>>),
    TextSeg(TPE1, "utf8", <<233>>),
    TextSeg(TRCK, "latin1", <<49, 47, 50>>),
    TxxxSeg(TXXX, "latin1", DescALBUM, <<105>>),
    TxxxSeg(TXXX, "latin1", DescTITLE, <<72>>),
    TxxxSeg(TXXX, "utf8", DescFOO, <<72>>),
    TxxxSeg(TXXX, "utf16-bom-le", DescALBUM, <<105>>),
    CommSeg(COMM, "latin1", <<>>, <<105>>),
    RawSeg("skip", APIC, <<1, 2>>),
    RawSeg("raw", WOAR, <<72>>),
    BadSeg("txxx", TXXX, 9, <<9>> \o DescALBUM \o <<0, 0, 105>>),
    BadSeg("comm", COMM, 7, <<9, 101, 110, 103, 0, 0, 105>>),
    BadSeg("text", TIT2, 3, <<9, 72, 0>>),
    BadSeg("text", TALB, 100, <<0, 72>>),
    JunkSeg(<<0>>),
    JunkSeg(<<65>>) }

Catalog22 ==
  { TextSeg(TT2, "latin1", <<72, 105>>),
    TextSeg(TP1, "latin1", <<105>>),
    TextSeg(TOA, "latin1", <<72>>),
    TextSeg(TOT, "latin1", <<105>>),
    TextSeg(TDA, "latin1", <<49>>),
    TextSeg(TRK, "latin1", <<49, 47, 50>>),
    TxxxSeg(TXX, "latin1", DescALBUM, <<105>>),
    CommSeg(COM, "latin1", <<>>, <<105>>),
    RawSeg("skip", PIC, <<1, 2>>),
    RawSeg("raw", ULT, <<72>>),
    BadSeg("text", TT2, 3, <<9, 72, 0>>),
    JunkSeg(<<0>>) }

Catalog(major) == IF major = 2 THEN Catalog22 ELSE Catalog34

\* the bytes of a segment in a tag of version 2.major
SegBytes(major, g) ==
  IF g.kind = "junk" THEN g.body
  ELSE IF major = 2 THEN g.id \o Tail(BigEndian4(g.size)) \o g.body
  ELSE IF major = 3
  THEN g.id \o BigEndian4(g.size) \o <<g.flags \div 256, g.flags % 256>> \o g.body
  ELSE g.id \o SynchsafeBytes(g.size) \o <<g.flags \div 256, g.flags % 256>> \o g.body

RECURSIVE SegsBytes(_, _)
SegsBytes(major, segs) ==
  IF segs = <<>> THEN <<>>
  ELSE SegBytes(major, Head(segs)) \o SegsBytes(major, Tail(segs))

\* the 10 bytes of a tag header
HeaderBytes(major, flags, size) ==
  Magic \o <<major, 0, flags>> \o SynchsafeBytes(size)

\* what follows the tag in the source: the start of an MPEG audio frame
Trailer == <<255, 251>>

\* an extended header: its size field, its padding size field (v2.3), its bytes
NoExt == [hhSize |-> 0, padSize |-> 0, bytes |-> <<>>]

Ext23(hhSize, padSize) ==
  [hhSize |-> hhSize, padSize |-> padSize,
   bytes |-> BigEndian4(hhSize) \o <<IF hhSize > 6 THEN 128 ELSE 0, 0>>
             \o BigEndian4(padSize) \o Zeros(IF hhSize > 6 THEN hhSize - 6 ELSE 0)]

Ext24(hhSize) ==
  [hhSize |-> hhSize, padSize |-> 0,
   bytes |-> SynchsafeBytes(hhSize) \o <<1, 0>>
             \o Zeros(IF hhSize > 6 THEN hhSize - 6 ELSE 0)]

ExtChoices(major, flags) ==
  IF ~HasBit(flags, flagExtendedHeader) \/ major = 2 THEN {NoExt}
  ELSE IF major = 3 THEN {Ext23(s, p) : s \in {6, 10}, p \in {0, 4, 40}}
  ELSE {Ext24(s) : s \in {5, 6, 7}}

HeaderFlagChoices == {0, 16, 64, 80, 128, 144, 192, 208}

\* the null bytes after the frame in the sources of the header family
HeaderPad == 4

\* the one frame of the sources of the header family
HeaderFrame(major) ==
  IF major = 2 THEN TextSeg(TT2, "latin1", <<72, 255>>)
  ELSE TextSeg(TIT2, "latin1", <<72, 255>>)

\* the size a header of the family must declare for the tag to end where the
\* trailer starts: extended header, frame, padding and footer
CoherentSize(major, flags, ext) ==
  Len(ext.bytes) + Len(SegBytes(major, HeaderFrame(major))) + HeaderPad
  + (IF HasBit(flags, flagFooterPresent) THEN footerSize ELSE 0)

SizeChoices(major, flags, ext) ==
  {0, 9, CoherentSize(major, flags, ext), CoherentSize(major, flags, ext) + 2, 130}

\* a tag of segments and padding under a plain header of the right size
InitScan ==
  \E major \in {2, 3, 4} :
    \E segs \in SeqsUpTo(Catalog(major), MaxSegs) :
      \E k \in 0..MaxPad :
        LET body == SegsBytes(major, segs) \o Zeros(k)
        IN  /\ gen = [family |-> "scan", major |-> major, flags |-> 0,
                      segs |-> segs, pad |-> k, size |-> Len(body), ext |-> NoExt]
            /\ src = HeaderBytes(major, 0, Len(body)) \o body \o Trailer

\* one frame and four null bytes under every header of the family
InitHeader ==
  \E major \in {2, 3, 4} :
    \E flags \in HeaderFlagChoices :
      \E ext \in ExtChoices(major, flags) :
        \E size \in SizeChoices(major, flags, ext) :
          /\ gen = [family |-> "header", major |-> major, flags |-> flags,
                    segs |-> <<HeaderFrame(major)>>, pad |-> HeaderPad,
                    size |-> size, ext |-> ext]
          /\ src = HeaderBytes(major, flags, size) \o ext.bytes
                   \o SegBytes(major, HeaderFrame(major)) \o Zeros(HeaderPad)
                   \o (IF HasBit(flags, flagFooterPresent)
                       THEN <<51, 68, 73>> \o Zeros(7) ELSE <<>>)
                   \o Trailer

\* one text frame, of every scheme and string, and no padding
InitFrame ==
  \E major \in {3, 4} :
    \E id \in {TIT2, TALB} :
      \E k \in Schemes :
        \E s \in SeqsUpTo(SchemePoints(k), MaxTextLen) :
          LET body == SegBytes(major, TextSeg(id, k, s))
          IN  /\ gen = [family |-> "frame", major |-> major, flags |-> 0,
                        segs |-> <<TextSeg(id, k, s)>>, pad |-> 0,
                        size |-> Len(body), ext |-> NoExt]
              /\ src = HeaderBytes(major, 0, Len(body)) \o body \o Trailer

\* the frames put to the scanner one at a time: frames whose header flags
\* declare encryption, whatever else the header and the body say
EncryptedProbes ==
  { FlagSeg(TextSeg(TIT2, "latin1", <<72>>), frameEncrypted, FALSE),
    FlagSeg(TextSeg(TALB, "utf8", <<233>>), 64 * 256 + frameEncrypted, FALSE),
    FlagSeg(TextSeg(TIT2, "latin1", <<72>>), frameEncrypted + frameCompressed, FALSE),
    FlagSeg(TextSeg(TIT2, "latin1", <<72>>),
            frameEncrypted + frameDataLengthIndicator, FALSE),
    FlagSeg(TextSeg(TIT2, "latin1", <<72>>),
            frameEncrypted + frameUnsynchronisation, FALSE),
    FlagSeg(BadSeg("text", TIT2, 3, <<9, 72, 0>>), frameEncrypted, FALSE),
    FlagSeg(BadSeg("text", TALB, 100, <<0, 72>>), frameEncrypted, FALSE),
    FlagSeg(BadSeg("text", TALB, 0, <<>>), frameEncrypted, FALSE),
    FlagSeg(TxxxSeg(TXXX, "latin1", DescALBUM, <<105>>), frameEncrypted, FALSE),
    FlagSeg(CommSeg(COMM, "latin1", <<>>, <<105>>), frameEncrypted, FALSE),
    FlagSeg(RawSeg("skip", APIC, <<1, 2>>), frameEncrypted, FALSE),
    FlagSeg(RawSeg("raw", WOAR, <<72>>), frameEncrypted, FALSE) }

\* text frames whose first byte is none of the four selectors, with nothing,
\* one byte or more behind it
UnknownSelectorProbes ==
  { BadSeg("text", id, 1 + Len(rest), <<sel>> \o rest) :
      id \in {TIT2, TALB}, sel \in {4, 255},
      rest \in {<<>>, <<0>>, <<72>>, <<72, 105>>, <<254, 255, 0, 72>>} }

\* TXXX and COMM frames whose body ends before the terminator of the
\* description, or before the description
TruncatedProbes ==
  { BadSeg("txxx", TXXX, 6, <<0>> \o DescALBUM),
    BadSeg("txxx", TXXX, 1, <<3>>),
    BadSeg("txxx", TXXX, 5, <<1, 255, 254, 65, 0>>),
    BadSeg("txxx", TXXX, 4, <<2, 0, 65, 0>>),
    BadSeg("comm", COMM, 6, <<0, 101, 110, 103, 72, 105>>),
    BadSeg("comm", COMM, 4, <<3, 101, 110, 103>>),
    BadSeg("comm", COMM, 8, <<1, 101, 110, 103, 255, 254, 72, 0>>),
    BadSeg("comm", COMM, 2, <<0, 101>>) }

ProbeCatalog == EncryptedProbes \cup UnknownSelectorProbes \cup TruncatedProbes

\* the frames ahead of the probed frame: none, a text frame, a TXXX frame the
\* scanner passes over
ProbePrefix ==
  { <<>>,
    <<TextSeg(TIT2, "latin1", <<105>>)>>,
    <<BadSeg("txxx", TXXX, 9, <<9>> \o DescALBUM \o <<0, 0, 105>>)>> }

\* the frames behind it
ProbeSuffix == { <<>>, <<TextSeg(TPE1, "latin1", <<72>>)>> }

\* the null bytes behind the frames of the probe family, when it has some
ProbePad == 4

\* one probed frame among well-formed frames under a plain header
InitProbe ==
  \E major \in {3, 4} :
    \E pre \in ProbePrefix :
      \E g \in ProbeCatalog :
        \E post \in ProbeSuffix :
          \E k \in {0, ProbePad} :
            LET segs == pre \o <<g>> \o post
                body == SegsBytes(major, segs) \o Zeros(k)
            IN  /\ gen = [family |-> "probe", major |-> major, flags |-> 0,
                          segs |-> segs, pad |-> k, size |-> Len(body),
                          ext |-> NoExt]
                /\ src = HeaderBytes(major, 0, Len(body)) \o body \o Trailer

\* a zlib stream that holds data in one stored block: header 78 01, the
\* block 01 LEN NLEN data, and the Adler-32 checksum sum of the data
ZlibStored(data, sum) ==
  <<120, 1, 1, Len(data), 0, 255 - Len(data), 255>> \o data \o sum

\* the body of a latin1 text frame "Hi" and its Adler-32 checksum
BodyHi == <<0, 72, 105>>
AdlerHi == <<0, 252, 0, 178>>

\* a text frame body whose string holds the byte pair FF 00: selector 0,
\* FF 00 41
BodyFF00 == <<0, 255, 0, 65>>

\* the 4 bytes of a data length indicator that announces n bytes
Indicator(n) == SynchsafeBytes(n)

\* v2.3 and v2.4 frames whose header flags ask for a transform of the body:
\* a data length indicator ahead of it (the declared size counts its 4 bytes),
\* compression, unsynchronisation; and the text frames with FF 00 in the body
\* that carry no flag
FlaggedCatalog34 ==
  { FlagSeg(Seg("text", TIT2, 7, Indicator(3) \o BodyHi, TRUE, "latin1", <<>>,
                <<72, 105>>), frameDataLengthIndicator, TRUE),
    FlagSeg(Seg("skip", APIC, 6, Indicator(2) \o <<1, 2>>, TRUE, "", <<>>, <<1, 2>>),
            frameDataLengthIndicator, TRUE),
    FlagSeg(Seg("txxx", TXXX, 12, Indicator(8) \o <<0>> \o DescFOO \o <<0, 72, 105, 0>>,
                TRUE, "latin1", DescFOO, <<72, 105>>),
            frameDataLengthIndicator, TRUE),
    FlagSeg(BadSeg("text", TIT2, 2, <<0, 0>>), frameDataLengthIndicator, FALSE),
    FlagSeg(BadSeg("text", TIT2, 0, <<>>), frameDataLengthIndicator, FALSE),
    FlagSeg(BadSeg("text", TIT2, 4, Indicator(0)), frameDataLengthIndicator, FALSE),
    FlagSeg(Seg("text", TIT2, 14, ZlibStored(BodyHi, AdlerHi), TRUE, "latin1", <<>>,
                <<72, 105>>), frameCompressed, TRUE),
    FlagSeg(Seg("text", TIT2, 18, Indicator(3) \o ZlibStored(BodyHi, AdlerHi), TRUE,
                "latin1", <<>>, <<72, 105>>),
            frameCompressed + frameDataLengthIndicator, TRUE),
    FlagSeg(Seg("raw", WOAR, 14, ZlibStored(BodyHi, AdlerHi), TRUE, "", <<>>, BodyHi),
            frameCompressed, TRUE),
    FlagSeg(BadSeg("text", TIT2, 3, BodyHi), frameCompressed, FALSE),
    FlagSeg(Seg("text", TIT2, 4, BodyFF00, TRUE, "latin1", <<>>, <<255, 65>>),
            frameUnsynchronisation, TRUE),
    Seg("text", TIT2, 4, BodyFF00, TRUE, "latin1", <<>>, <<255>>),
    Seg("text", TALB, 2, <<3, 65>>, TRUE, "utf8", <<>>, <<65>>) }

\* v2.3 frames, given byte by byte, whose size field is so large that
\* frameSize + headerSize passes 2^32: 2^32 - 6 and 2^32 - 10 on frames that
\* are skipped, 2^32 - 6 on a text frame; and a skipped frame of size 2 with
\* a data length indicator, whose size less 4 is 2^32 - 2
WrapCatalog ==
  { JunkSeg(APIC \o <<255, 255, 255, 250>> \o <<0, 0>> \o <<1, 2>>),
    JunkSeg(APIC \o <<255, 255, 255, 246>> \o <<0, 0>> \o <<1, 2>>),
    JunkSeg(TALB \o <<255, 255, 255, 250>> \o <<0, 0>> \o <<0, 72>>),
    FlagSeg(BadSeg("skip", APIC, 2, <<1, 2>>), frameDataLengthIndicator, FALSE) }

\* frames no decoder was written for: a text or TXXX frame of declared size
\* 0, UTF-16 bodies of odd length or shorter than a byte order mark
FaultCatalog(major) ==
  IF major = 2
  THEN { BadSeg("text", TT2, 0, <<>>),
         BadSeg("text", TT2, 4, <<2, 0, 72, 105>>) }
  ELSE { BadSeg("text", TALB, 0, <<>>),
         BadSeg("txxx", TXXX, 0, <<>>),
         BadSeg("text", TALB, 4, <<1, 255, 254, 72>>),
         BadSeg("text", TALB, 2, <<1, 255>>),
         BadSeg("text", TALB, 4, <<2, 0, 72, 105>>),
         BadSeg("txxx", TXXX, 4, <<2, 0, 0, 72>>),
         BadSeg("comm", COMM, 7, <<2, 101, 110, 103, 0, 0, 72>>) }
       \cup (IF major = 3 THEN WrapCatalog ELSE {})

\* TXXX and COMM frames whose description is in a two-byte encoding: "A",
\* U+0100, or empty, each string with its byte order mark where the scheme
\* has one
TwoByteSchemes == {"utf16-bom-le", "utf16-bom-be", "utf16be"}

TwoByteCatalog ==
  { TxxxSeg(TXXX, k, d, <<105>>) : k \in TwoByteSchemes, d \in {<<65>>, <<256>>, <<>>} }
  \cup
  { CommSeg(COMM, k, d, <<105>>) : k \in TwoByteSchemes, d \in {<<65>>, <<256>>, <<>>} }

\* v2.2 frames: text with FF 00 in the body, and text without
FlaggedCatalog22 ==
  { Seg("text", TT2, 4, BodyFF00, TRUE, "latin1", <<>>, <<255>>),
    Seg("text", TP1, 2, <<3, 65>>, TRUE, "utf8", <<>>, <<65>>) }

FlaggedCatalog(major) ==
  FaultCatalog(major)
  \cup (IF major = 2 THEN FlaggedCatalog22 ELSE FlaggedCatalog34 \cup TwoByteCatalog)

\* the frame ahead of the flagged frame, when there is one, and the frame
\* behind it
FlaggedPrefix(major) ==
  {<<>>, <<TextSeg(IF major = 2 THEN TOA ELSE TPE1, "latin1", <<105>>)>>}

FlaggedSuffix(major) ==
  {<<>>, <<TextSeg(IF major = 2 THEN TOT ELSE TALB, "latin1", <<72>>)>>}

\* the null bytes behind the frames of the flagged family, when it has some
FlaggedPad == 4

\* one flagged frame among plain frames, under a header with or without the
\* unsynchronisation flag
InitFlagged ==
  \E major \in {2, 3, 4} :
    \E flags \in {0, flagUnsynchronisation} :
      \E pre \in FlaggedPrefix(major) :
        \E g \in FlaggedCatalog(major) :
          \E post \in FlaggedSuffix(major) :
            \E k \in {0, FlaggedPad} :
              LET segs == pre \o <<g>> \o post
                  body == SegsBytes(major, segs) \o Zeros(k)
              IN  /\ gen = [family |-> "flagged", major |-> major, flags |-> flags,
                            segs |-> segs, pad |-> k, size |-> Len(body),
                            ext |-> NoExt]
                  /\ src = HeaderBytes(major, flags, Len(body)) \o body \o Trailer

\* runs of digits and the numbers they spell
NumberRuns ==
  { [digits |-> <<50>>, n |-> 2],
    [digits |-> <<49, 48>>, n |-> 10],
    [digits |-> <<48, 48, 55>>, n |-> 7],
    [digits |-> <<48>>, n |-> 0] }

\* punctuation characters: / - . : and the middle dot U+00B7
PunctChars == {47, 45, 46, 58, 183}

\* runs of more than one punctuation character: "//", "/-", ".:"
PunctRuns == { <<47, 47>>, <<47, 45>>, <<46, 58>> }

\* separators with a character that is not punctuation: " of ", " / ", " ",
\* "+"
WordSeparators == { <<32, 111, 102, 32>>, <<32, 47, 32>>, <<32>>, <<43>> }

NumberSeparators == {<<p>> : p \in PunctChars} \cup PunctRuns \cup WordSeparators

\* the values of the TPOS and TRCK frames of the number family
NumberStrings ==
  {r.digits : r \in NumberRuns}
  \cup {r1.digits \o sep \o r2.digits :
          r1 \in NumberRuns, r2 \in NumberRuns, sep \in NumberSeparators}

\* a TPOS or a TRCK frame of every value, alone or ahead of the other frame
InitNumber ==
  \E major \in {3, 4} :
    \E ids \in {<<TPOS, TRCK>>, <<TRCK, TPOS>>} :
      \E s \in NumberStrings :
        \E post \in {<<>>, <<TextSeg(ids[2], "latin1", <<49, 48, 47, 50>>)>>} :
          LET segs == <<TextSeg(ids[1], "latin1", s)>> \o post
              body == SegsBytes(major, segs)
          IN  /\ gen = [family |-> "number", major |-> major, flags |-> 0,
                        segs |-> segs, pad |-> 0, size |-> Len(body),
                        ext |-> NoExt]
              /\ src = HeaderBytes(major, 0, Len(body)) \o body \o Trailer

\* The values of the date frames: the string, the time the layouts of
\* dateFormats give it on its own (ok when one of them matches), and what it
\* says as a part of the composed date (part when it is four digits in range:
\* a year, day and month, hour and minute).
DateValue(s, ok, tm, part, a, b) ==
  [s |-> s, ok |-> ok, tm |-> tm, part |-> part, a |-> a, b |-> b]

NoDate == DateValue(<<>>, FALSE, ZeroTime, FALSE, 0, 0)

\* "2001", "1987", "20x1"
YearValues ==
  { DateValue(<<50, 48, 48, 49>>, TRUE, TimeOf(2001, 1, 1, 0, 0, 0, 0), TRUE, 2001, 0),
    DateValue(<<49, 57, 56, 55>>, TRUE, TimeOf(1987, 1, 1, 0, 0, 0, 0), TRUE, 1987, 0),
    DateValue(<<50, 48, 120, 49>>, FALSE, ZeroTime, FALSE, 0, 0) }

\* "0403" (4 March; on its own the year 403), "3102" (31 February), "04/03"
DayMonthValues ==
  { DateValue(<<48, 52, 48, 51>>, TRUE, TimeOf(403, 1, 1, 0, 0, 0, 0), TRUE, 4, 3),
    DateValue(<<51, 49, 48, 50>>, TRUE, TimeOf(3102, 1, 1, 0, 0, 0, 0), FALSE, 0, 0),
    DateValue(<<48, 52, 47, 48, 51>>, FALSE, ZeroTime, FALSE, 0, 0) }

\* "1020" (10:20; on its own the year 1020), "2560"
HourMinuteValues ==
  { DateValue(<<49, 48, 50, 48>>, TRUE, TimeOf(1020, 1, 1, 0, 0, 0, 0), TRUE, 10, 20),
    DateValue(<<50, 53, 54, 48>>, TRUE, TimeOf(2560, 1, 1, 0, 0, 0, 0), FALSE, 0, 0) }

\* "2005-03-04T10:20:30Z", "2005-03-04T10:20+0130", "2005-03", "2005-02-30",
\* "2004.02.29"
TimestampValues ==
  { DateValue(<<50, 48, 48, 53, 45, 48, 51, 45, 48, 52, 84, 49, 48, 58, 50, 48,
                58, 51, 48, 90>>,
              TRUE, TimeOf(2005, 3, 4, 10, 20, 30, 0), FALSE, 0, 0),
    DateValue(<<50, 48, 48, 53, 45, 48, 51, 45, 48, 52, 84, 49, 48, 58, 50, 48,
                43, 48, 49, 51, 48>>,
              TRUE, TimeOf(2005, 3, 4, 10, 20, 0, 90), FALSE, 0, 0),
    DateValue(<<50, 48, 48, 53, 45, 48, 51>>,
              TRUE, TimeOf(2005, 3, 1, 0, 0, 0, 0), FALSE, 0, 0),
    DateValue(<<50, 48, 48, 53, 45, 48, 50, 45, 51, 48>>, FALSE, ZeroTime, FALSE, 0, 0),
    DateValue(<<50, 48, 48, 52, 46, 48, 50, 46, 50, 57>>,
              TRUE, TimeOf(2004, 2, 29, 0, 0, 0, 0), FALSE, 0, 0) }

\* "2006/01/02", "x"
ReleaseValues ==
  { DateValue(<<50, 48, 48, 54, 47, 48, 49, 47, 48, 50>>,
              TRUE, TimeOf(2006, 1, 2, 0, 0, 0, 0), FALSE, 0, 0),
    DateValue(<<120>>, FALSE, ZeroTime, FALSE, 0, 0) }

\* "1999-12-31T23"
OriginalValues ==
  { DateValue(<<49, 57, 57, 57, 45, 49, 50, 45, 51, 49, 84, 50, 51>>,
              TRUE, TimeOf(1999, 12, 31, 23, 0, 0, 0), FALSE, 0, 0) }

\* the text frame of a date value, no frame for NoDate
DateSeg(id, v) == IF v = NoDate THEN <<>> ELSE <<TextSeg(id, "latin1", v.s)>>

\* every choice of the six date frames, each absent or with one of its values
InitDate ==
  \E major \in {3, 4} :
    \E yer \in YearValues \cup {NoDate}, dat \in DayMonthValues \cup {NoDate},
       tim \in HourMinuteValues \cup {NoDate}, drc \in TimestampValues \cup {NoDate},
       drl \in ReleaseValues \cup {NoDate}, dor \in OriginalValues \cup {NoDate} :
      LET segs == DateSeg(TYER, yer) \o DateSeg(TDOR, dor) \o DateSeg(TIME, tim)
                  \o DateSeg(TDRL, drl) \o DateSeg(TDAT, dat) \o DateSeg(TDRC, drc)
          body == SegsBytes(major, segs)
      IN  /\ gen = [family |-> "date", major |-> major, flags |-> 0,
                    segs |-> segs, pad |-> 0, size |-> Len(body), ext |-> NoExt,
                    dates |-> [id \in {TYER, TDAT, TIME, TDRC, TDRL, TDOR} |->
                                 CASE id = TYER -> yer [] id = TDAT -> dat
                                   [] id = TIME -> tim [] id = TDRC -> drc
                                   [] id = TDRL -> drl [] id = TDOR -> dor]]
          /\ src = HeaderBytes(major, 0, Len(body)) \o body \o Trailer

\* Decode has not started
Init ==
  /\ InitScan \/ InitHeader \/ InitFrame \/ InitProbe \/ InitNumber
     \/ InitDate \/ InitFlagged
  /\ srcOff = 0
  /\ pc = "readHeader"
  /\ h = NoHeader
  /\ padding = U32(0)
  /\ tag = Mk(<<>>)
  /\ rr = U32(0)
  /\ pos = U32(0)
  /\ frameSize = U32(0)
  /\ frameID = <<>>
  /\ frames = EmptyMap
  /\ txxx = EmptyMap
  /\ err = ""
  /\ tags = NoTags
  /\ tf = [scheme |-> "", str |-> <<>>, sel |-> 0, buf |-> <<>>, unsynch |-> FALSE,
           out |-> NoOut]
  /\ ogg = NoReader

Spec == Init /\ [][Next]_vars

----------------------------------------------------------------------------
\* The text decoder on its own.

InitText ==
  /\ \E k \in Schemes :
       \E s \in SeqsUpTo(SchemePoints(k), MaxTextLen) :
         \E u \in BOOLEAN :
           tf = [scheme |-> k, str |-> s, sel |-> SchemeSel(k),
                 buf |-> SchemeBytes(k, s), unsynch |-> u, out |-> NoOut]
  /\ ogg = NoReader
  /\ src = <<>>
  /\ srcOff = 0
  /\ pc = "idle"
  /\ h = NoHeader
  /\ padding = U32(0)
  /\ tag = Mk(<<>>)
  /\ rr = U32(0)
  /\ pos = U32(0)
  /\ frameSize = U32(0)
  /\ frameID = <<>>
  /\ frames = EmptyMap
  /\ txxx = EmptyMap
  /\ err = ""
  /\ tags = NoTags
  /\ gen = [family |-> "text", major |-> 0, flags |-> 0, segs |-> <<>>, pad |-> 0,
            size |-> 0, ext |-> NoExt]

\* s, err := decodeTextFrame(enc, buf, unsynch)
DecodeText ==
  /\ tf.out = NoOut
  /\ tf' = [tf EXCEPT !.out = decodeTextFrame(tf.sel, Mk(tf.buf), tf.unsynch)]
  /\ UNCHANGED <<decodeVars, ogg>>

NextText == DecodeText

SpecText == InitText /\ [][NextText]_vars

----------------------------------------------------------------------------
\* A function on its own: Decode is not running.
Idle(family) ==
  /\ src = <<>>
  /\ srcOff = 0
  /\ pc = "idle"
  /\ h = NoHeader
  /\ padding = U32(0)
  /\ tag = Mk(<<>>)
  /\ rr = U32(0)
  /\ pos = U32(0)
  /\ frameSize = U32(0)
  /\ frameID = <<>>
  /\ frames = EmptyMap
  /\ txxx = EmptyMap
  /\ err = ""
  /\ tags = NoTags
  /\ gen = [family |-> family, major |-> 0, flags |-> 0, segs |-> <<>>, pad |-> 0,
            size |-> 0, ext |-> NoExt]

\* synchsafe32 on its own.

\* the 7-bit groups the values are made of
SevenBits == {0, 1, 85, 127}

\* 28-bit values: every choice of four groups, and 1000
SynchsafeValues ==
  {((a * 128 + b) * 128 + c) * 128 + d :
     a \in SevenBits, b \in SevenBits, c \in SevenBits, d \in SevenBits}
  \cup {1000}

NotDecoded == <<>>

InitSynchsafe ==
  /\ \E v \in SynchsafeValues :
       tf = [v |-> v, bytes |-> SynchsafeBytes(v), out |-> NotDecoded]
  /\ ogg = NoReader
  /\ Idle("synchsafe")

\* out = synchsafe32(n), n the big-endian uint32 of the 4 bytes
DecodeSynchsafe ==
  /\ tf.out = NotDecoded
  /\ tf' = [tf EXCEPT !.out = synchsafe32(U32Bytes(tf.bytes[1], tf.bytes[2],
                                                    tf.bytes[3], tf.bytes[4]))]
  /\ UNCHANGED <<decodeVars, ogg>>

NextSynchsafe == DecodeSynchsafe

SpecSynchsafe == InitSynchsafe /\ [][NextSynchsafe]_vars

----------------------------------------------------------------------------

\* Decode up to the entry of readFrames, for the headers that have neither an
\* extended header nor a footer.

\* the values of the first, second, third and fourth size byte
SizeBytes == <<{0, 127}, {0, 1, 127}, {0, 7, 127}, {0, 1, 104, 127}>>

\* the header flags besides the two: none, unsynchronisation, experimental
PlainFlagChoices == {0, flagUnsynchronisation, 32}

InitSize ==
  /\ \E major \in {2, 3, 4} :
       \E flags \in PlainFlagChoices :
         \E b0 \in SizeBytes[1], b1 \in SizeBytes[2], b2 \in SizeBytes[3],
            b3 \in SizeBytes[4] :
           /\ gen = [family |-> "size", major |-> major, flags |-> flags,
                     segs |-> <<HeaderFrame(major)>>, pad |-> 0,
                     size |-> <<b0, b1, b2, b3>>, ext |-> NoExt]
           /\ src = Magic \o <<major, 0, flags>> \o <<b0, b1, b2, b3>>
                    \o SegBytes(major, HeaderFrame(major)) \o Trailer
  /\ srcOff = 0
  /\ pc = "readHeader"
  /\ h = NoHeader
  /\ padding = U32(0)
  /\ tag = Mk(<<>>)
  /\ rr = U32(0)
  /\ pos = U32(0)
  /\ frameSize = U32(0)
  /\ frameID = <<>>
  /\ frames = EmptyMap
  /\ txxx = EmptyMap
  /\ err = ""
  /\ tags = NoTags
  /\ tf = [scheme |-> "", str |-> <<>>, sel |-> 0, buf |-> <<>>, unsynch |-> FALSE,
           out |-> NoOut]
  /\ ogg = NoReader

NextHeader ==
  \/ ReadHeader
  \/ ReadTag

SpecHeader == InitSize /\ [][NextHeader]_vars

----------------------------------------------------------------------------

\* The Ogg Reader.

CapturePattern == <<79, 103, 103, 83>>

\* the bytes binary.Read fills a Header from: Version, HeaderType, GranulePos,
\* StreamSerialNumber, PageCounter, PageChecksum, SegmentCount
OggHeaderSize == 23

\* the sum of the lacing values of a segment table
RECURSIVE SumBytes(_)
SumBytes(t) == IF t = <<>> THEN 0 ELSE Head(t) + SumBytes(Tail(t))

\* io.ReadFull(r.r, buf) for a buffer of n bytes at offset off of the stream
\* s: [err, off]
OggReadFull(s, off, n) ==
  IF n = 0 THEN [err |-> "", off |-> off]
  ELSE IF Len(s) - off >= n THEN [err |-> "", off |-> off + n]
  ELSE [err |-> IF Len(s) = off THEN "EOF" ELSE "ErrUnexpectedEOF", off |-> Len(s)]

\* capture(false): [err, off]
capture(s, off) ==
  IF OggReadFull(s, off, 4).err # "" THEN OggReadFull(s, off, 4)
  ELSE IF SubSeq(s, off + 1, off + 4) # CapturePattern
  THEN [err |-> "ErrBadHeader", off |-> off + 4]
  ELSE [err |-> "", off |-> off + 4]

\* what NextPage returns and leaves: the Reader, whether the page returned is
\* not nil, the error
PageOut(r, page, e) == [r |-> r, page |-> page, err |-> e]

PageFail(r, e, off) == PageOut([r EXCEPT !.validPage = FALSE, !.off = off], FALSE, e)

\* NextPage from the page data on: the segment table tab was read up to
\* offset off, d is the read of the data
nextPageData(r, s, tab, off, d) ==
  IF d.err # ""
  THEN PageFail([r EXCEPT !.tabLen = IF r.tabLen < Len(tab) THEN Len(tab) ELSE r.tabLen,
                          !.bufLen = IF r.bufLen < SumBytes(tab) THEN SumBytes(tab)
                                     ELSE r.bufLen],
                d.err, d.off)
  ELSE PageOut([r EXCEPT !.tabLen = IF r.tabLen < Len(tab) THEN Len(tab) ELSE r.tabLen,
                         !.bufLen = IF r.bufLen < SumBytes(tab) THEN SumBytes(tab)
                                    ELSE r.bufLen,
                         !.data = SubSeq(s, off + 1, off + SumBytes(tab)),
                         !.validPage = TRUE, !.ptr = 0, !.off = d.off],
               TRUE, "")

\* NextPage from the segment table on: the header was read up to offset off
\* and has SegmentCount count, t is the read of the table
nextPageTable(r, s, count, off, t) ==
  IF t.err # ""
  THEN PageFail([r EXCEPT !.tabLen = IF r.tabLen < count THEN count ELSE r.tabLen],
                t.err, t.off)
  ELSE nextPageData(r, s, SubSeq(s, off + 1, off + count), t.off,
                    OggReadFull(s, t.off, SumBytes(SubSeq(s, off + 1, off + count))))

\* NextPage from the header on: c is what capture returned, hd the read of
\* the header
nextPageHeader(r, s, c, hd) ==
  IF c.err = "EOF" THEN PageOut([r EXCEPT !.off = c.off], FALSE, "")
  ELSE IF c.err # "" THEN PageFail(r, c.err, c.off)
  ELSE IF hd.err # "" THEN PageFail(r, hd.err, hd.off)
  ELSE nextPageTable(r, s, s[hd.off], hd.off, OggReadFull(s, hd.off, s[hd.off]))

\* (*Reader).NextPage on the stream s
NextPage(r, s) ==
  nextPageHeader(r, s, capture(s, r.off),
                 OggReadFull(s, capture(s, r.off).off, OggHeaderSize))

\* Read's test for a new page: the first read, or the current page exhausted
needsPage(r) == ~r.validPage \/ r.ptr >= Len(r.data) - 1

\* copy(p[n:], ...): the bytes of the page from ptr on that fit in what is
\* left of a buffer of p bytes, n of them filled
copied(r, p, n) ==
  IF Len(r.data) - r.ptr < p
  THEN SubSeq(r.data, r.ptr + 1,
              IF p - n < Len(r.data) - r.ptr THEN r.ptr + p - n ELSE Len(r.data))
  ELSE SubSeq(r.data, r.ptr + 1, r.ptr + (p - n))

\* the largest buffer handed to Read
MaxBuf == 3

\* the pages of a stream
MaxPages == 2

\* the segment tables of the pages: their lacing values
SegmentTables == {<<>>, <<1>>, <<2>>, <<1, 2>>, <<4>>}

\* the data of the i-th page under table t: bytes that tell the page and the
\* place
PageData(i, t) == [j \in 1..SumBytes(t) |-> 16 * i + j]

\* the bytes of the i-th page
PageBytes(i, t) ==
  CapturePattern \o <<0, 0>> \o Zeros(8) \o <<1, 0, 0, 0>> \o <<i, 0, 0, 0>>
  \o Zeros(4) \o <<Len(t)>> \o t \o PageData(i, t)

RECURSIVE StreamBytes(_, _)
StreamBytes(tabs, i) ==
  IF i > Len(tabs) THEN <<>>
  ELSE PageBytes(i, tabs[i]) \o StreamBytes(tabs, i + 1)

RECURSIVE StreamData(_, _)
StreamData(tabs, i) ==
  IF i > Len(tabs) THEN <<>>
  ELSE PageData(i, tabs[i]) \o StreamData(tabs, i + 1)

\* what follows the last page: nothing, or the start of a capture pattern
StreamTails == {<<>>, <<79, 103>>}

\* NewReader(r) over a stream of pages
InitOgg ==
  /\ \E tabs \in SeqsUpTo(SegmentTables, MaxPages) :
       \E tail \in StreamTails :
         ogg = [pc |-> "idle", s |-> StreamBytes(tabs, 1) \o tail,
                all |-> StreamData(tabs, 1), tail |-> tail,
                r |-> [off |-> 0, validPage |-> FALSE, data |-> <<>>, ptr |-> 0,
                       tabLen |-> 0, bufLen |-> 0],
                p |-> 0, n |-> 0, buf |-> <<>>, out |-> <<>>, err |-> ""]
  /\ Idle("ogg")
  /\ tf = [scheme |-> "", str |-> <<>>, sel |-> 0, buf |-> <<>>, unsynch |-> FALSE,
           out |-> NoOut]

\* Read(p) is called with a buffer of k bytes
Read ==
  /\ ogg.pc = "idle"
  /\ \E k \in 0..MaxBuf :
       ogg' = [ogg EXCEPT !.pc = "loop", !.p = k, !.n = 0, !.buf = <<>>, !.err = ""]
  /\ UNCHANGED <<decodeVars, tf>>

\* the turn of Read's loop after NextPage np: return n and io.EOF on its
\* error, else copy from the page
readTurn(np) ==
  IF np.err # ""
  THEN [ogg EXCEPT !.pc = "idle", !.r = np.r, !.err = "EOF",
                   !.out = ogg.out \o ogg.buf]
  ELSE [ogg EXCEPT !.r = [np.r EXCEPT !.ptr = np.r.ptr
                                              + Len(copied(np.r, ogg.p, ogg.n))],
                   !.n = ogg.n + Len(copied(np.r, ogg.p, ogg.n)),
                   !.buf = ogg.buf \o copied(np.r, ogg.p, ogg.n)]

\* one turn of the loop of Read
ReadLoop ==
  /\ ogg.pc = "loop"
  /\ ogg.n < ogg.p
  /\ ogg' = readTurn(IF needsPage(ogg.r) THEN NextPage(ogg.r, ogg.s)
                     ELSE PageOut(ogg.r, TRUE, ""))
  /\ UNCHANGED <<decodeVars, tf>>

\* Read returns n and no error
ReadReturn ==
  /\ ogg.pc = "loop"
  /\ ogg.n >= ogg.p
  /\ ogg' = [ogg EXCEPT !.pc = "idle", !.out = ogg.out \o ogg.buf]
  /\ UNCHANGED <<decodeVars, tf>>

NextOgg ==
  \/ Read
  \/ ReadLoop
  \/ ReadReturn

SpecOgg == InitOgg /\ [][NextOgg]_vars

----------------------------------------------------------------------------

\* The properties.

Returned == pc \in {"done", "error", "panic"}

\* readFrames is running or has run
InScan == pc \in {"frameloop", "recover", "translate"}

\* the bytes of src the tag buffer was filled from end at srcOff until the
\* trailing padding is discarded
TagEnd == srcOff

\* C1: for every version and every content of the body region, the frame
\* scanner never consumes more than the effective declared body size, and the
\* bytes it takes frames from are those of the region and no byte behind it:
\* the reader's offset stays within the buffer, the buffer is as long as the
\* size the header left, and it holds the bytes of the source that follow the
\* header (and the extended header), at most that many.
C1_ScanWithinRegion ==
  InScan =>
    /\ U32Le(rr, h.Size)
    /\ BufLen(tag) = h.Size
    /\ U32Le(U32(Len(tag.d)), h.Size)
    /\ tag.d = SubSeq(src, TagEnd - Len(tag.d) + 1, TagEnd)

\* a frame that declares more bytes than the region has left stopped the scan
\* at the end of the region, bytes of the source left behind it
C1_Witness ==
  /\ gen.family = "scan"
  /\ pc = "error"
  /\ rr = h.Size
  /\ \E i \in 1..Len(gen.segs) : gen.segs[i].size > Len(gen.segs[i].body)
  /\ srcOff < Len(src)

\* C8: for each of the four selectors, decoding the bytes that encode a
\* string s under the selector's scheme returns s: 0x00 ISO-8859-1, 0x01
\* UTF-16 in the byte order of its BOM, 0x02 UTF-16 big-endian without BOM,
\* 0x03 UTF-8.
C8_DecodeReturnsString ==
  (tf.out # NoOut /\ ~tf.unsynch) =>
    (tf.out.err = "" /\ tf.out.s = EncodeUTF8(tf.str))

\* the same for the selectors other than 0x02
C8_OtherSelectors ==
  (tf.out # NoOut /\ ~tf.unsynch /\ tf.sel # encUTF16BE) =>
    (tf.out.err = "" /\ tf.out.s = EncodeUTF8(tf.str))

AllWellFormed(segs) == \A i \in 1..Len(segs) : segs[i].wf

\* a plain header of version 2.major that declares size bytes
ScanHeader(major, size) == [Major |-> major, Minor |-> 0, Flags |-> 0, Size |-> U32(size)]

\* readFrames on a region of exactly these bytes
ScanOf(major, bytes) ==
  RunScan(ScanHeader(major, Len(bytes)), Mk(bytes), ScanStart(ScanHeader(major, Len(bytes))))

\* readFrames has returned
ScanReturned == pc \in {"discard", "makeTags", "done", "error", "panic"}

\* C3: for every version and every k >= 0, a region of well-formed frames
\* followed by k null bytes is scanned without error and yields the frame map
\* of the same region without the padding.
C3_PaddingIgnored ==
  (gen.family = "scan" /\ AllWellFormed(gen.segs) /\ ScanReturned) =>
    /\ pc \notin {"error", "panic"}
    /\ frames = ScanOf(gen.major, SegsBytes(gen.major, gen.segs)).frames

\* the same for the k that are 0 or at least the width of a frame ID
C3_WholeWindow ==
  (/\ gen.family = "scan" /\ AllWellFormed(gen.segs) /\ ScanReturned
   /\ (gen.pad = 0 \/ gen.pad >= IDWidth(h))) =>
    /\ pc \notin {"error", "panic"}
    /\ frames = ScanOf(gen.major, SegsBytes(gen.major, gen.segs)).frames

\* C9: a v2.3 region of one text frame (ID T..., not TXXX, plain size, flags
\* 0) whose body is selector 00, the Latin-1 bytes of a null-free string s and
\* one null byte yields a frame map in which the ID maps to s.
C9_Latin1TextFrame ==
  (/\ gen.family = "frame" /\ gen.major = 3 /\ gen.segs[1].scheme = "latin1"
   /\ ScanReturned) =>
    /\ pc \notin {"error", "panic"}
    /\ gen.segs[1].id \in DOMAIN frames
    /\ frames[gen.segs[1].id] = Mk(EncodeUTF8(gen.segs[1].text))

\* the frame of a string with a character above 0x7F has been scanned
C9_Witness ==
  /\ gen.family = "frame" /\ gen.major = 3 /\ gen.segs[1].scheme = "latin1"
  /\ pc = "done"
  /\ gen.segs[1].text = <<72, 233>>
  /\ frames = (gen.segs[1].id :> Mk(<<72, 195, 169>>))

\* the body of the frame is kept in the map: not a picture or private frame,
\* and not a TXXX frame, which goes to the map of its own
Retained(major, g) == g.kind \in {"text", "comm", "raw"} \/ (g.kind = "txxx" /\ major = 2)

\* the string the map holds for a retained frame; v2.2 decodes neither COM
\* nor TXX by its translated ID
ExpectedValue(major, g) ==
  CASE g.kind = "text" -> EncodeUTF8(g.text)
    [] g.kind = "comm" -> IF major = 2 THEN g.body ELSE EncodeUTF8(g.text)
    [] g.kind = "txxx" -> EncodeUTF8(g.desc)
    [] OTHER -> g.body

Canonical(id) == IF id \in DOMAIN v22Equiv THEN v22Equiv[id] ELSE id

\* C7: for every v2.2 frame whose 3-character ID is in the translation table
\* and whose body is retained, the decoded value is stored under the table's
\* 4-character ID and no entry is stored under the 3-character ID. (The value
\* is the frame's unless a later frame of the same 4-character ID replaced it.)
C7_V22Translated ==
  (gen.family = "scan" /\ gen.major = 2) =>
    /\ \A k \in DOMAIN frames : k \notin DOMAIN v22Equiv
    /\ (AllWellFormed(gen.segs) /\ ScanReturned) =>
         \A i \in 1..Len(gen.segs) :
           (Retained(2, gen.segs[i]) /\ gen.segs[i].id \in DOMAIN v22Equiv) =>
             /\ v22Equiv[gen.segs[i].id] \in DOMAIN frames
             /\ (\A j \in (i + 1)..Len(gen.segs) :
                   ~Retained(2, gen.segs[j])
                   \/ Canonical(gen.segs[j].id) # v22Equiv[gen.segs[i].id]) =>
                  frames[v22Equiv[gen.segs[i].id]]
                    = Mk(ExpectedValue(2, gen.segs[i]))

\* a v2.2 tag of a TP1 frame was scanned: its value is under TPE1
C7_Witness ==
  /\ gen.family = "scan" /\ gen.major = 2 /\ pc = "done"
  /\ \E i \in 1..Len(gen.segs) : gen.segs[i].id = TP1
  /\ TPE1 \in DOMAIN frames /\ frames[TPE1] = Mk(<<105>>)
  /\ TP1 \notin DOMAIN frames

\* the frame IDs a mapped TXXX entry was merged under
MergedIDs == {txxxEquiv[d] : d \in DOMAIN txxx \cap DOMAIN txxxEquiv}

\* C10: when several non-TXXX frames of a tag have the same canonical ID
\* (distinct v2.2 IDs of one translation among them), the frame map holds the
\* value of the last of them in scan order. (Before the TXXX entries are
\* merged, and after it unless a mapped TXXX entry took the ID.)
C10_LastWins ==
  (/\ gen.family = "scan" /\ AllWellFormed(gen.segs)
   /\ pc \in {"translate", "discard", "makeTags", "done"}) =>
    \A i, j \in 1..Len(gen.segs) :
      (/\ i < j
       /\ Retained(gen.major, gen.segs[i]) /\ Retained(gen.major, gen.segs[j])
       /\ Canonical(gen.segs[i].id) = Canonical(gen.segs[j].id)
       /\ \A l \in (j + 1)..Len(gen.segs) :
            ~Retained(gen.major, gen.segs[l])
            \/ Canonical(gen.segs[l].id) # Canonical(gen.segs[j].id)) =>
        /\ Canonical(gen.segs[j].id) \in DOMAIN frames
        /\ \/ pc # "translate" /\ Canonical(gen.segs[j].id) \in MergedIDs
           \/ frames[Canonical(gen.segs[j].id)]
                = Mk(ExpectedValue(gen.major, gen.segs[j]))

\* TOT after TOA in a v2.2 tag: TOAL holds TOT's value
C10_Witness ==
  /\ gen.family = "scan" /\ gen.major = 2 /\ pc = "done"
  /\ Len(gen.segs) = 2 /\ gen.segs[1].id = TOA /\ gen.segs[2].id = TOT
  /\ frames = (<<84, 79, 65, 76>> :> Mk(<<105>>))

\* two TIT2 frames of different values in a v2.3 tag: TIT2 holds the second
C10_WitnessSameID ==
  /\ gen.family = "scan" /\ gen.major = 3 /\ pc = "done"
  /\ Len(gen.segs) = 2 /\ gen.segs[1].id = TIT2 /\ gen.segs[2].id = TIT2
  /\ gen.segs[1].text = <<72, 105>> /\ gen.segs[2].text = <<105>>
  /\ frames = (TIT2 :> Mk(<<105>>))

\* C6: after a successful scan of a tag of any version every key of the frame
\* map is exactly 4 characters long; no 3-character v2.2 ID is a key.
C6_KeysFourChars ==
  pc \in {"discard", "makeTags", "done"} => \A k \in DOMAIN frames : Len(k) = 4

\* C6 as the code has it: after a successful scan every key of the frame map
\* is 4 characters long, or is the 3-character ID of a v2.2 frame that the
\* translation table does not hold; no ID of the table is a key.
C6_KeysTranslated ==
  pc \in {"discard", "makeTags", "done"} =>
    \A k \in DOMAIN frames :
      \/ Len(k) = 4
      \/ Len(k) = 3 /\ h.Major = 2 /\ k \notin DOMAIN v22Equiv

\* a v2.2 tag with a TDA frame and a frame of the table was scanned
C6_Witness ==
  /\ gen.major = 2 /\ pc = "done"
  /\ TDA \in DOMAIN frames
  /\ \E k \in DOMAIN frames : Len(k) = 4

\* a mapped TXXX entry was merged into the map of a v2.3 or v2.4 tag
C6_WitnessMerged ==
  /\ gen.major \in {3, 4} /\ pc = "done"
  /\ MergedIDs # {} /\ MergedIDs \subseteq DOMAIN frames

\* a frame the text decoder has no scheme for: its selector is none of the
\* four, and text follows it
Undecodable(g) ==
  /\ g.kind \in {"text", "txxx", "comm"}
  /\ g.size = Len(g.body)
  /\ g.body[1] \notin {encISO8859_1, encUTF16_BOM, encUTF16BE, encUTF8}

\* a TXXX frame the text decoder rejects
RejectedTXXX(g) == Undecodable(g) /\ g.id = TXXX

\* the scanner reaches segment i at a frame boundary
Reached(i) == \A j \in 1..(i - 1) : gen.segs[j].wf \/ RejectedTXXX(gen.segs[j])

IsWellFormed(g) == g.wf

C4_WitnessSkipped ==
  /\ gen.family = "scan" /\ pc = "done"
  /\ \E i \in 1..Len(gen.segs) : RejectedTXXX(gen.segs[i])
  /\ frames # EmptyMap

\* what the header makes readHeader and Decode take off the declared size: the
\* extended header (4 more than its size field in v2.3), the padding the v2.3
\* extended header declares, the footer
SizeCost ==
  (IF HasBit(gen.flags, flagExtendedHeader)
   THEN (IF gen.major = 3 THEN gen.ext.hhSize + 4 + gen.ext.padSize
         ELSE IF gen.major = 4 THEN gen.ext.hhSize ELSE 0)
   ELSE 0)
  + (IF HasBit(gen.flags, flagFooterPresent) THEN footerSize ELSE 0)

\* C2: when Decode succeeds on a buffered source that holds the whole tag, it
\* has consumed exactly 10 + S bytes of the source, S the size field of the
\* tag header, for every combination of extended header, extended-header
\* padding size, footer flag and frame contents.
C2_ConsumesWholeTag ==
  (pc = "done" /\ Len(src) >= 10 + gen.size) => srcOff = 10 + gen.size

\* the same for the headers whose size field covers what they take off it
C2_SizeCovers ==
  (pc = "done" /\ Len(src) >= 10 + gen.size /\ SizeCost <= gen.size) =>
    srcOff = 10 + gen.size

\* C2_SizeCovers has its cases: a v2.3 extended header with CRC and padding
\* and a footer, a v2.4 extended header, each decoded to the end
C2_SizeCoversV23 ==
  /\ gen.family = "header" /\ gen.major = 3 /\ pc = "done"
  /\ gen.flags = 208 /\ gen.ext.hhSize = 10 /\ gen.ext.padSize = 4
  /\ srcOff = 10 + gen.size /\ frames # EmptyMap

C2_SizeCoversV24 ==
  /\ gen.family = "header" /\ gen.major = 4 /\ pc = "done"
  /\ gen.flags = 64 /\ gen.ext.hhSize = 7
  /\ srcOff = 10 + gen.size /\ frames # EmptyMap

\* a TXXX frame of a v2.3 or v2.4 tag whose description the table holds
MappedTXXX(major, g) == g.kind = "txxx" /\ major # 2 /\ g.desc \in DOMAIN txxxEquiv

\* the greatest number of a set of numbers that is not empty
Last(S) == CHOOSE i \in S : \A j \in S : j <= i

\* The map the tag's frames stand for: the last value of every canonical ID
\* among the retained frames, then under the table's ID the last value of
\* every TXXX description the table holds.
ExpectedFrames(major, segs) ==
  LET plain  == {i \in 1..Len(segs) : Retained(major, segs[i])}
      mapped == {i \in 1..Len(segs) : MappedTXXX(major, segs[i])}
      ids    == {txxxEquiv[segs[i].desc] : i \in mapped}
  IN  [k \in {Canonical(segs[i].id) : i \in plain} \cup ids |->
         IF k \in ids
         THEN Mk(EncodeUTF8(segs[Last({i \in mapped : txxxEquiv[segs[i].desc] = k})].text))
         ELSE Mk(ExpectedValue(major, segs[Last({i \in plain : Canonical(segs[i].id) = k})]))]

\* C5: the final frame map is the map of the non-TXXX frames overridden by
\* exactly the TXXX entries whose description is in the user-frame-name
\* table: a mapped TXXX value is under its canonical ID whether a built-in
\* frame of that ID comes before or after it, and a TXXX of an unmapped
\* description leaves the map unchanged.
C5_MergeMappedTXXX ==
  (/\ gen.family = "scan" /\ AllWellFormed(gen.segs)
   /\ pc \in {"discard", "makeTags", "done"}) =>
    frames = ExpectedFrames(gen.major, gen.segs)

\* the same for the tags whose TXXX frames are in a single-byte encoding
C5_SingleByteTXXX ==
  (/\ gen.family = "scan" /\ AllWellFormed(gen.segs)
   /\ \A i \in 1..Len(gen.segs) :
        gen.segs[i].kind = "txxx" => gen.segs[i].scheme \in {"latin1", "utf8"}
   /\ pc \in {"discard", "makeTags", "done"}) =>
    frames = ExpectedFrames(gen.major, gen.segs)

\* C5_SingleByteTXXX has its cases: a mapped TXXX before the built-in frame of
\* its ID, one behind it, an unmapped one
C5_TXXXBefore ==
  /\ gen.family = "scan" /\ pc = "done" /\ Len(gen.segs) = 2
  /\ MappedTXXX(gen.major, gen.segs[1]) /\ gen.segs[1].scheme = "latin1"
  /\ gen.segs[2].kind = "text" /\ gen.segs[2].id = txxxEquiv[gen.segs[1].desc]
  /\ frames = (gen.segs[2].id :> Mk(gen.segs[1].text))
  /\ gen.segs[1].text # gen.segs[2].text

C5_TXXXBehind ==
  /\ gen.family = "scan" /\ pc = "done" /\ Len(gen.segs) = 2
  /\ MappedTXXX(gen.major, gen.segs[2]) /\ gen.segs[2].scheme = "latin1"
  /\ gen.segs[1].kind = "text" /\ gen.segs[1].id = txxxEquiv[gen.segs[2].desc]
  /\ frames = (gen.segs[1].id :> Mk(gen.segs[2].text))
  /\ gen.segs[1].text # gen.segs[2].text

C5_TXXXUnmapped ==
  /\ gen.family = "scan" /\ pc = "done" /\ Len(gen.segs) = 2
  /\ gen.segs[1].kind = "txxx" /\ gen.segs[1].desc = DescFOO
  /\ gen.segs[2].kind = "text"
  /\ frames = (gen.segs[2].id :> Mk(EncodeUTF8(gen.segs[2].text)))

\* the offset in the tag buffer where segment i starts
SegStart(i) == Len(SegsBytes(gen.major, SubSeq(gen.segs, 1, i - 1)))

\* segment i is a frame whose header flags declare encryption
Encrypted(i) == HasBit(gen.segs[i].flags, frameEncrypted)

\* C11: in a v2.3 or v2.4 tag, a frame whose flags declare encryption makes
\* Decode return ErrEncryption and no tag set, wherever the frame stands among
\* the frames the scanner reaches, and its body is not decoded: the reader
\* stops behind the 10 bytes of the frame's header, and the map holds nothing
\* under the frame's ID but what a frame ahead of it stored.
C11_EncryptedFrameFails ==
  (gen.family = "probe" /\ ScanReturned) =>
    \A i \in 1..Len(gen.segs) :
      (Encrypted(i) /\ Reached(i)) =>
        /\ pc = "error" /\ err = "ErrEncryption" /\ tags = NoTags
        /\ rr = U32(SegStart(i) + 10)
        /\ gen.segs[i].id \in DOMAIN frames =>
             \E j \in 1..(i - 1) : gen.segs[j].wf /\ gen.segs[j].id = gen.segs[i].id

\* an encrypted frame behind a frame that was stored stopped Decode, a frame
\* and padding left behind it
C11_Witness ==
  /\ gen.family = "probe" /\ gen.major = 3
  /\ Len(gen.segs) = 3 /\ Encrypted(2) /\ gen.segs[1].wf /\ gen.pad > 0
  /\ pc = "error" /\ err = "ErrEncryption"
  /\ DOMAIN frames = {TIT2}

\* the same in a v2.4 tag, the encrypted frame first and a body that no
\* decoder would take
C11_WitnessFirst ==
  /\ gen.family = "probe" /\ gen.major = 4
  /\ Encrypted(1) /\ gen.segs[1].body # <<>> /\ Undecodable(gen.segs[1])
  /\ pc = "error" /\ err = "ErrEncryption" /\ frames = EmptyMap

\* segment i is a text frame other than TXXX whose first body byte is none of
\* the four selectors
UnknownSelector(i) ==
  /\ gen.segs[i].kind = "text" /\ gen.segs[i].flags = 0
  /\ gen.segs[i].size = Len(gen.segs[i].body) /\ gen.segs[i].body # <<>>
  /\ gen.segs[i].body[1] \notin {encISO8859_1, encUTF16_BOM, encUTF16BE, encUTF8}

\* C12: a text frame whose encoding selector byte is not one of 0x00, 0x01,
\* 0x02, 0x03 makes Decode fail with the unknown-encoding error, whatever the
\* length of the rest of the frame body.
C12_UnknownSelectorFails ==
  (gen.family = "probe" /\ ScanReturned) =>
    \A i \in 1..Len(gen.segs) :
      (UnknownSelector(i) /\ Reached(i)) =>
        (pc = "error" /\ err = "unknown encoding" /\ tags = NoTags)

\* the same for the frames that have at least one byte behind the selector
C12_UnknownSelectorWithText ==
  (gen.family = "probe" /\ ScanReturned) =>
    \A i \in 1..Len(gen.segs) :
      (UnknownSelector(i) /\ Len(gen.segs[i].body) > 1 /\ Reached(i)) =>
        (pc = "error" /\ err = "unknown encoding" /\ tags = NoTags)

\* a frame of the selector byte alone is stored as the empty string
C12_SelectorAloneStored ==
  (gen.family = "probe" /\ pc = "done") =>
    \A i \in 1..Len(gen.segs) :
      (UnknownSelector(i) /\ Reached(i)) =>
        (Len(gen.segs[i].body) = 1 /\ gen.segs[i].id \in DOMAIN frames)

\* the bytes of a TXXX or COMM body from its description on: behind the
\* selector, and in a COMM frame behind the 3 bytes of the language code
FromDescription(g) ==
  IF g.kind = "comm" THEN SubSeq(g.body, 5, Len(g.body)) ELSE Tail(g.body)

\* segment i is a TXXX or COMM frame with one of the four selectors and no
\* terminator anywhere behind it: no 0x00 under a single-byte selector, no two
\* 0x00 in a row under a double-byte one
Truncated(i) ==
  LET g == gen.segs[i] IN
  /\ g.kind \in {"txxx", "comm"} /\ g.flags = 0
  /\ g.size = Len(g.body) /\ g.body # <<>>
  /\ IF g.body[1] \in {encISO8859_1, encUTF8}
     THEN IndexNul(FromDescription(g), 1) = 0
     ELSE /\ g.body[1] \in {encUTF16_BOM, encUTF16BE}
          /\ IndexNulNul(FromDescription(g), 1) = 0

UnexpectedEOFErrors ==
  {"EOF", "ErrUnexpectedEOF", "unexpected eof inside terminated string"}

\* C13: a TXXX or COMM frame whose body ends before the terminator of its
\* description makes Decode fail with an error of unexpected end of data.
C13_TruncatedFails ==
  (gen.family = "probe" /\ ScanReturned) =>
    \A i \in 1..Len(gen.segs) :
      (Truncated(i) /\ Reached(i)) =>
        (pc = "error" /\ err \in UnexpectedEOFErrors)

\* what the code does with such a frame: the TXXX frame is passed over and the
\* COMM frame is stored as the empty string, and no error comes of either
C13_TruncatedPassed ==
  (gen.family = "probe" /\ ScanReturned) =>
    \A i \in 1..Len(gen.segs) :
      (Truncated(i) /\ Reached(i)) =>
        /\ pc \notin {"error", "panic"}
        /\ gen.segs[i].kind = "comm" =>
             (COMM \in DOMAIN frames /\ frames[COMM] = Mk(<<>>))

\* the primary number and the total the tag set has for a TPOS or TRCK frame
Primary(id) == IF id = TPOS THEN tags.disc ELSE tags.track
Total(id) == IF id = TPOS THEN tags.TotalDiscs ELSE tags.TotalTracks

\* the value of segment i is one run of digits, or two runs of digits with one
\* punctuation character between them
PlainNumber(i) ==
  \E r1 \in NumberRuns :
    \/ gen.segs[i].text = r1.digits
    \/ \E r2 \in NumberRuns, p \in PunctChars :
         gen.segs[i].text = r1.digits \o <<p>> \o r2.digits

C14_WitnessSingle ==
  /\ gen.family = "number" /\ pc = "done"
  /\ Len(gen.segs) = 2
  /\ gen.segs[1].id = TRCK /\ gen.segs[1].text = <<48, 48, 55>>
  /\ tags.track = 7 /\ tags.TotalTracks = 0
  /\ tags.disc = 10 /\ tags.TotalDiscs = 2

\* the separators of the multi-number grammar as it is documented: the
\* punctuation characters, runs of them, and " of "
DocumentedSeparators ==
  {<<p>> : p \in PunctChars} \cup PunctRuns \cup {<<32, 111, 102, 32>>}

\* the value of segment i is two runs of digits joined by a separator of seps
Joined(i, seps) ==
  \E r1 \in NumberRuns, r2 \in NumberRuns, sep \in seps :
    gen.segs[i].text = r1.digits \o sep \o r2.digits

C15_WitnessRun ==
  /\ gen.family = "number" /\ pc = "done"
  /\ gen.segs[1].id = TRCK /\ gen.segs[1].text = <<50, 47, 47, 49, 48>>
  /\ tags.track = 2 /\ tags.TotalTracks = 10

\* the date frames in the order of the last resort
LastResortOrder == <<TDRC, TDRL, TDOR, TDAT, TIME, TYER>>

\* the frame of LastResortOrder from the i-th on that is in the tag with a
\* value some layout matches, and the time that layout gives; the zero date
\* when there is none
RECURSIVE FirstMatching(_)
FirstMatching(i) ==
  IF i > Len(LastResortOrder) THEN ZeroTime
  ELSE IF gen.dates[LastResortOrder[i]].ok THEN gen.dates[LastResortOrder[i]].tm
  ELSE FirstMatching(i + 1)

\* TYER is in the tag and is a year
YearGiven == gen.dates[TYER].part

YearAlone == TimeOf(gen.dates[TYER].a, 1, 1, 0, 0, 0, 0)

\* TDAT is in the tag, it is a day and a month, and TIME is an hour and a
\* minute or absent
DayGiven ==
  /\ gen.dates[TDAT].part
  /\ gen.dates[TIME] = NoDate \/ gen.dates[TIME].part

\* year of TYER, day and month of TDAT, hour and minute of TIME
Composed ==
  TimeOf(gen.dates[TYER].a, gen.dates[TDAT].b, gen.dates[TDAT].a,
         gen.dates[TIME].a, gen.dates[TIME].b, 0, 0)

C16_WitnessComposed ==
  /\ gen.family = "date" /\ pc = "done"
  /\ tags.date = TimeOf(2001, 3, 4, 10, 20, 0, 0)

\* without TYER, TDRC "2005-02-30" matched no layout and the date came from
\* TDRL, though TDOR, TDAT and TIME had values that match
C16_WitnessLastResort ==
  /\ gen.family = "date" /\ pc = "done"
  /\ gen.dates[TYER] = NoDate
  /\ gen.dates[TDRC] # NoDate /\ ~gen.dates[TDRC].ok
  /\ gen.dates[TDOR].ok /\ gen.dates[TDAT].ok /\ gen.dates[TIME].ok
  /\ tags.date = TimeOf(2006, 1, 2, 0, 0, 0, 0)

\* the dates the frames of the tag can give: what a layout makes of one of
\* them, the year of TYER, TYER composed with TDAT and TIME
DatesOfFrames ==
  {gen.dates[id].tm : id \in {id \in DOMAIN gen.dates : gen.dates[id].ok}}
  \cup (IF YearGiven THEN {YearAlone} ELSE {})
  \cup (IF YearGiven /\ DayGiven THEN {Composed} ELSE {})

\* C17: release-date resolution never makes Decode fail: for any values of the
\* date frames Decode returns no error, and the date is one parsed from the
\* frames or the zero date; and no Decode of any tag ends with the error of a
\* date that did not parse.
C17_DateNeverFails ==
  /\ err # "parsing time"
  /\ (gen.family = "date" /\ Returned) =>
       /\ pc = "done" /\ err = ""
       /\ tags.date \in DatesOfFrames \cup {ZeroTime}

\* date frames that no layout matches gave the zero date and no error
C17_Witness ==
  /\ gen.family = "date" /\ pc = "done" /\ err = ""
  /\ gen.dates[TYER] # NoDate /\ gen.dates[TDAT] # NoDate
  /\ gen.dates[TDRC] # NoDate /\ gen.dates[TDRL] # NoDate
  /\ DatesOfFrames = {}
  /\ tags.date = ZeroTime

\* C18: for every 28-bit value v, decoding the 4-byte synchsafe encoding of v
\* (7 bits of v in the low bits of each byte, bit 7 of each byte 0) returns v.
C18_SynchsafeRoundTrip ==
  (gen.family = "synchsafe" /\ tf.out # NotDecoded) =>
    /\ \A i \in 1..4 : tf.bytes[i] < 128
    /\ tf.out = U32(tf.v)

\* the largest 28-bit value, four bytes 0x7F, came back
C18_Witness ==
  /\ gen.family = "synchsafe"
  /\ tf.v = 268435455 /\ tf.bytes = <<127, 127, 127, 127>>
  /\ tf.out = U32(268435455)

\* 1000, bytes 00 00 07 68, came back
C18_WitnessThousand ==
  /\ gen.family = "synchsafe"
  /\ tf.v = 1000 /\ tf.bytes = <<0, 0, 7, 104>>
  /\ tf.out # NotDecoded /\ ToNat(tf.out) = 1000

\* the number four 7-bit groups spell, most significant first
SynchsafeValue(b) == ((b[1] * 128 + b[2]) * 128 + b[3]) * 128 + b[4]

\* C19: for a header with valid magic and neither the extended-header flag nor
\* the footer flag, the body size handed to the frame scanner (the size of the
\* header and of the tag buffer at the entry of readFrames) is the synchsafe
\* decoding of the 4 size bytes, for every major version and every size value;
\* size bytes that encode 1000 give 1000.
C19_SizeHandedToScanner ==
  (gen.family = "size" /\ pc = "frameloop") =>
    /\ h.Size = U32(SynchsafeValue(gen.size))
    /\ BufLen(tag) = h.Size
    /\ padding = U32(0)
    /\ h.Major = gen.major

\* a v2.3 header with size bytes 00 00 07 68 handed 1000 to the scanner
C19_Witness ==
  /\ gen.family = "size" /\ pc = "frameloop"
  /\ gen.major = 3 /\ gen.size = <<0, 0, 7, 104>>
  /\ ToNat(h.Size) = 1000

\* a v2.2 header with the unsynchronisation flag and size bytes 7F 7F 7F 7F
\* handed 2^28 - 1
C19_WitnessLargest ==
  /\ gen.family = "size" /\ pc = "frameloop"
  /\ gen.major = 2 /\ gen.flags = flagUnsynchronisation
  /\ gen.size = <<127, 127, 127, 127>>
  /\ ToNat(h.Size) = 268435455

\* s is the start of t
IsPrefix(s, t) == Len(s) <= Len(t) /\ s = SubSeq(t, 1, Len(s))

\* C20: for any sequence of Read calls with any buffer sizes over a stream of
\* well-formed pages, the bytes delivered are the concatenation of the pages'
\* data in page order: what the calls have returned so far is the start of
\* it, no byte dropped or repeated at a page boundary.
C20_ReadDeliversPageData ==
  (gen.family = "ogg" /\ ogg.tail = <<>>) => IsPrefix(ogg.out, ogg.all)

\* the bytes a page had left when Read asked for the next one
Skipped == ogg.pc = "loop" /\ needsPage(ogg.r) /\ ogg.r.validPage
           /\ ogg.r.ptr < Len(ogg.r.data)

\* what Read does deliver: the bytes returned are in page order, none
\* repeated, though some are missing
RECURSIVE IsSubsequence(_, _)
IsSubsequence(s, t) ==
  IF s = <<>> THEN TRUE
  ELSE IF t = <<>> THEN FALSE
  ELSE IF Head(s) = Head(t) THEN IsSubsequence(Tail(s), Tail(t))
  ELSE IsSubsequence(s, Tail(t))

C20_ReadDeliversInOrder ==
  (gen.family = "ogg" /\ ogg.tail = <<>>) => IsSubsequence(ogg.out, ogg.all)

\* the turn Read's loop takes from the current state
ThisTurn ==
  readTurn(IF needsPage(ogg.r) THEN NextPage(ogg.r, ogg.s)
           ELSE PageOut(ogg.r, TRUE, ""))

\* NextPage has nothing more to give: it returns neither a page nor an error
LastPageReadOut ==
  /\ needsPage(ogg.r)
  /\ ~NextPage(ogg.r, ogg.s).page
  /\ NextPage(ogg.r, ogg.s).err = ""

\* C21: every Read call terminates: a turn of its loop never leaves the
\* call where it was (same count, same page position, the loop condition
\* still true), and once NextPage returns neither a page nor an error the
\* turn returns io.EOF with the bytes read so far.
C21_ReadTerminates ==
  (gen.family = "ogg" /\ ogg.pc = "loop" /\ ogg.n < ogg.p)
    => /\ ThisTurn # ogg
       /\ LastPageReadOut => (ThisTurn.pc = "idle" /\ ThisTurn.err = "EOF")

\* the part of C21 that the code keeps: Read does return io.EOF, with the
\* bytes read so far, when NextPage fails
C21_ReadReturnsOnError ==
  (gen.family = "ogg" /\ ogg.pc = "loop" /\ ogg.n < ogg.p /\ needsPage(ogg.r)
   /\ NextPage(ogg.r, ogg.s).err # "")
    => (ThisTurn.pc = "idle" /\ ThisTurn.err = "EOF"
        /\ ThisTurn.out = ogg.out \o ogg.buf)

\* a Read call that spins: the stream is at its end, the page has no byte
\* left, and the loop turn changes nothing
C21_Spinning ==
  /\ gen.family = "ogg" /\ ogg.pc = "loop" /\ ogg.n < ogg.p
  /\ LastPageReadOut
  /\ ThisTurn = ogg

\* the scan is at the start of a frame attempt: the head of the frame loop,
\* the counter below the size
AttemptStart == pc = "frameloop" /\ U32Lt(pos, h.Size)

\* segment i carries a data length indicator
Indicated(i) ==
  gen.major > 2 /\ gen.segs[i].kind # "junk"
  /\ HasBit(gen.segs[i].flags, frameDataLengthIndicator)

\* C22: at the start of every frame attempt of the scan, the consumed-byte
\* counter equals the number of bytes the scanner has consumed from the body
\* region, the offset of its reader: recovered bytes are counted once and a
\* frame advances the counter by the bytes read for its header, its data
\* length indicator and its body.
C22_CounterIsOffset == AttemptStart => pos = rr

\* the same for the tags none of whose frames carries flags, while the last
\* frame read declared no more bytes than the region holds
C22_CounterPlainFrames ==
  (AttemptStart /\ U32Le(frameSize, h.Size)
   /\ \A i \in 1..Len(gen.segs) : gen.segs[i].flags = 0) => pos = rr

\* a frame with a data length indicator was read whole and the scan is at
\* the start of the next attempt, the counter 4 behind the reader
C22_IndicatorUncounted ==
  /\ gen.family = "flagged" /\ Len(gen.segs) = 2 /\ Indicated(1)
  /\ AttemptStart
  /\ rr = U32(SegStart(2))
  /\ U32Add(pos, U32(4)) = rr

\* the v2.3 frame a v2.2 frame translates to: the table's ID, the same body
Translated(g) == IF g.kind = "junk" THEN g ELSE [g EXCEPT !.id = Canonical(g.id)]

TranslatedSegs(segs) == [i \in 1..Len(segs) |-> Translated(segs[i])]

\* the map readFrames returns for the v2.3 tag of the translated frames
TranslatedFrames(segs) == ScanOf(3, SegsBytes(3, TranslatedSegs(segs))).frames

\* every frame of the tag has an ID the translation table holds
AllTranslated(segs) == \A i \in 1..Len(segs) : segs[i].id \in DOMAIN v22Equiv

\* C23: the body decoder of a v2.2 frame is chosen by its translated ID: a
\* v2.2 tag of well-formed frames with IDs of the table yields the frame map of the v2.3 tag that
\* holds the same bodies under the translated IDs, so that a COM frame is
\* decoded as COMM (language and description dropped, text decoded) and a
\* TXX frame is handled as a user-defined TXXX frame.
C23_DecoderByTranslatedID ==
  (gen.family = "scan" /\ gen.major = 2 /\ AllWellFormed(gen.segs)
   /\ AllTranslated(gen.segs) /\ pc \in {"discard", "makeTags", "done"})
    => frames = TranslatedFrames(gen.segs)

\* the same for the tags that hold neither a COM nor a TXX frame
C23_OtherFramesAgree ==
  (gen.family = "scan" /\ gen.major = 2 /\ AllWellFormed(gen.segs)
   /\ AllTranslated(gen.segs) /\ pc \in {"discard", "makeTags", "done"}
   /\ \A i \in 1..Len(gen.segs) : gen.segs[i].id \notin {COM, TXX})
    => frames = TranslatedFrames(gen.segs)

\* a v2.2 COM frame was stored with its selector, language code and
\* description, where the COMM frame of the same body yields its text
C23_ComStoredVerbatim ==
  /\ gen.family = "scan" /\ gen.major = 2 /\ pc = "done"
  /\ Len(gen.segs) = 1 /\ gen.segs[1].id = COM
  /\ frames = (COMM :> Mk(gen.segs[1].body))
  /\ TranslatedFrames(gen.segs) = (COMM :> Mk(EncodeUTF8(gen.segs[1].text)))

\* a v2.2 TXX frame was stored as plain text under TXXX, its description as
\* the value, where the TXXX frame of the same body is merged by description
C23_TxxStoredAsText ==
  /\ gen.family = "scan" /\ gen.major = 2 /\ pc = "done"
  /\ Len(gen.segs) = 1 /\ gen.segs[1].id = TXX
  /\ frames = (TXXX :> Mk(gen.segs[1].desc))
  /\ TranslatedFrames(gen.segs) = (TALB :> Mk(EncodeUTF8(gen.segs[1].text)))

\* the Adler-32 checksum of data as 4 bytes, most significant first
RECURSIVE AdlerSums(_, _, _)
AdlerSums(data, a, b) ==
  IF data = <<>> THEN <<b \div 256, b % 256, a \div 256, a % 256>>
  ELSE AdlerSums(Tail(data), (a + Head(data)) % 65521,
                 (b + ((a + Head(data)) % 65521)) % 65521)

Adler32(data) == AdlerSums(data, 1, 0)

\* the inflate transform of a zlib stream that holds one final stored block
\* (RFC 1950, RFC 1951 section 3.2.4): [data, err]. Any other stream is taken
\* as one that fails.
Inflate(b) ==
  IF Len(b) < 7 \/ b[1] % 16 # 8 \/ b[1] \div 16 > 7 \/ (b[1] * 256 + b[2]) % 31 # 0
     \/ HasBit(b[2], 32) \/ b[3] # 1
     \/ b[6] # 255 - b[4] \/ b[7] # 255 - b[5]
     \/ Len(b) < 7 + b[4] + 256 * b[5] + 4
  THEN [data |-> <<>>, err |-> "inflate"]
  ELSE IF SubSeq(b, 8 + b[4] + 256 * b[5], 11 + b[4] + 256 * b[5])
          # Adler32(SubSeq(b, 8, 7 + b[4] + 256 * b[5]))
  THEN [data |-> <<>>, err |-> "inflate"]
  ELSE [data |-> SubSeq(b, 8, 7 + b[4] + 256 * b[5]), err |-> ""]

\* segment i is a frame whose header flags declare compression
Compressed(i) ==
  gen.major > 2 /\ gen.segs[i].kind # "junk"
  /\ HasBit(gen.segs[i].flags, frameCompressed)

\* the raw body of a frame: what follows the data length indicator, if any
RawBody(g) ==
  IF HasBit(g.flags, frameDataLengthIndicator) /\ Len(g.body) >= 4
  THEN SubSeq(g.body, 5, Len(g.body)) ELSE g.body

\* the frame with its inflated body, no flag set
Inflated(g) ==
  [g EXCEPT !.flags = 0, !.body = Inflate(RawBody(g)).data,
            !.size = Len(Inflate(RawBody(g)).data)]

\* the tag with segment i inflated
InflatedSegs(i) == [j \in 1..Len(gen.segs) |->
                      IF j = i THEN Inflated(gen.segs[j]) ELSE gen.segs[j]]

\* C24: for a v2.3 or v2.4 frame whose flags declare compression, the content
\* decoder is given the inflate transform of the frame's raw body: the tag
\* yields the frame map of the tag that holds the inflated body in a plain
\* frame, and Decode fails when the transform fails; the compressed bytes are
\* never decoded as the frame's value.
C24_CompressedBodyInflated ==
  (gen.family = "flagged" /\ gen.flags = 0 /\ ScanReturned) =>
    \A i \in 1..Len(gen.segs) :
      (Compressed(i) /\ Reached(i)) =>
        IF Inflate(RawBody(gen.segs[i])).err # ""
        THEN pc = "error"
        ELSE /\ pc # "error" /\ pc # "panic"
             /\ frames = ScanOf(gen.major,
                                SegsBytes(gen.major, InflatedSegs(i))
                                \o Zeros(gen.pad)).frames

\* what the code keeps of C24: a compressed frame whose body does not start
\* with a zlib header fails the decode
C24_BadHeaderFails ==
  (gen.family = "flagged" /\ ScanReturned) =>
    \A i \in 1..Len(gen.segs) :
      (Compressed(i) /\ Reached(i) /\ ~HasBit(gen.segs[i].flags, frameDataLengthIndicator)
       /\ gen.segs[i].body = BodyHi)
        => (pc = "error" /\ err = "zlib.ErrHeader")

\* a compressed frame ahead of padding was read without error: the bytes
\* behind its zlib header, compressed as they are, and the first two bytes of
\* the padding were stored as its value
C24_RawBytesStored ==
  /\ gen.family = "flagged" /\ gen.flags = 0 /\ gen.major = 3
  /\ Len(gen.segs) = 1 /\ Compressed(1) /\ gen.segs[1].id = WOAR /\ gen.pad > 0
  /\ Inflate(RawBody(gen.segs[1])).data = BodyHi
  /\ pc = "frameloop"
  /\ frames = (WOAR :> Mk(SubSeq(gen.segs[1].body, 3, 14) \o <<0, 0>>))

\* the effective unsynchronisation flag of segment i: the header's global
\* flag or the frame's own
EffectiveUnsynch(i) ==
  HasBit(gen.flags, flagUnsynchronisation)
  \/ (gen.major > 2 /\ HasBit(gen.segs[i].flags, frameUnsynchronisation))

\* segment i is a text frame with no flag but, at most, its own
\* unsynchronisation flag, and the only frame of its ID
UnsynchText(i) ==
  /\ gen.segs[i].kind = "text" /\ gen.segs[i].size = Len(gen.segs[i].body)
  /\ gen.segs[i].flags \in {0, frameUnsynchronisation}
  /\ Len(gen.segs[i].body) >= 2
  /\ \A j \in 1..Len(gen.segs) : j # i => gen.segs[j].id # gen.segs[i].id

\* the value of a text frame body whose FF 00 pairs are replaced by FF, or
\* are not
TextValue(body, unsynch) ==
  CutAtNul(decodeSwitch(body[1], IF unsynch THEN ReplaceFF00(Tail(body))
                                 ELSE Tail(body)).s)

\* every frame of the tag is a plain text frame or an unsynchronised one
AllUnsynchText == \A i \in 1..Len(gen.segs) : UnsynchText(i)

\* C25: for every tag version, 2.2 included, each FF 00 byte pair of a text
\* frame body is replaced by FF exactly when the header's global
\* unsynchronisation flag or the frame's own flag is set.
C25_UnsynchWhenFlagged ==
  (gen.family = "flagged" /\ AllUnsynchText /\ pc \in {"discard", "makeTags", "done"}) =>
    \A i \in 1..Len(gen.segs) :
      /\ Canonical(gen.segs[i].id) \in DOMAIN frames
      /\ frames[Canonical(gen.segs[i].id)]
           = Mk(TextValue(gen.segs[i].body, EffectiveUnsynch(i)))

\* the same for the versions whose frames have flags, v2.3 and v2.4
C25_UnsynchV23V24 ==
  (gen.family = "flagged" /\ gen.major > 2 /\ AllUnsynchText
   /\ pc \in {"discard", "makeTags", "done"}) =>
    \A i \in 1..Len(gen.segs) :
      /\ gen.segs[i].id \in DOMAIN frames
      /\ frames[gen.segs[i].id] = Mk(TextValue(gen.segs[i].body, EffectiveUnsynch(i)))

\* a v2.3 text frame FF 00 41 with no flag of its own under a header with the
\* global flag: the pair was replaced
C25_GlobalFlagApplied ==
  /\ gen.family = "flagged" /\ gen.major = 3 /\ gen.flags = flagUnsynchronisation
  /\ Len(gen.segs) = 1 /\ gen.segs[1].flags = 0 /\ gen.segs[1].body = BodyFF00
  /\ pc = "done"
  /\ frames = (TIT2 :> Mk(EncodeUTF8(<<255, 65>>)))

\* a v2.2 text frame FF 00 41 under a header with the global flag: the pair
\* was kept and the value cut at its 00
C25_V22FlagIgnored ==
  /\ gen.family = "flagged" /\ gen.major = 2 /\ gen.flags = flagUnsynchronisation
  /\ Len(gen.segs) = 1 /\ gen.segs[1].body = BodyFF00
  /\ pc = "done"
  /\ frames = (TIT2 :> Mk(EncodeUTF8(<<255>>)))

\* index of the first 2-byte unit 00 00 of s among the units that start at
\* i, i + 2, ..., or 0
RECURSIVE IndexNulUnit(_, _)
IndexNulUnit(s, i) ==
  IF i + 1 > Len(s) THEN 0
  ELSE IF s[i] = 0 /\ s[i + 1] = 0 THEN i ELSE IndexNulUnit(s, i + 2)

\* segment i is a TXXX or COMM frame with selector 0x01 or 0x02, whole, and
\* the only frame of its kind in the tag
TwoByteDescription(i) ==
  /\ gen.segs[i].kind \in {"txxx", "comm"} /\ gen.segs[i].flags = 0
  /\ gen.segs[i].wf /\ gen.segs[i].scheme \in TwoByteSchemes
  /\ \A j \in 1..Len(gen.segs) : j # i => gen.segs[j].kind = "text"

\* the bytes of the frame from the description on: behind the selector, and
\* the language code of a COMM frame
FromDescriptionOn(g) ==
  IF g.kind = "comm" THEN SubSeq(g.body, 5, Len(g.body)) ELSE Tail(g.body)

\* the description as the 2-byte units ahead of the first unit 00 00
UnitDescription(g) ==
  SubSeq(FromDescriptionOn(g), 1, IndexNulUnit(FromDescriptionOn(g), 1) - 1)

\* the value or comment text decoded from the byte behind that unit on
UnitValue(g, unsynch) ==
  decodeTextFrame(g.body[1],
                  Mk(SubSeq(FromDescriptionOn(g),
                            IndexNulUnit(FromDescriptionOn(g), 1) + 2,
                            Len(FromDescriptionOn(g)))),
                  unsynch)

\* C26: for the selectors 0x01 and 0x02 the description of a TXXX or COMM
\* frame is read in 2-byte units from its first byte and ends at the first
\* unit 00 00 at a 2-byte-aligned offset, and the value or comment text is
\* decoded from the byte right behind that unit: a TXXX frame is entered
\* under those description bytes with that value, a COMM frame is stored
\* with that text.
C26_AlignedTerminator ==
  (gen.family = "flagged" /\ gen.major > 2 /\ ScanReturned) =>
    \A i \in 1..Len(gen.segs) :
      TwoByteDescription(i) =>
        IF UnitValue(gen.segs[i], EffectiveUnsynch(i)).err # ""
        THEN IF gen.segs[i].kind = "txxx" THEN txxx = EmptyMap
             ELSE /\ pc \in {"error", "panic"}
                  /\ err = UnitValue(gen.segs[i], EffectiveUnsynch(i)).err
        ELSE IF gen.segs[i].kind = "txxx"
        THEN txxx = (UnitDescription(gen.segs[i])
                       :> Mk(UnitValue(gen.segs[i], EffectiveUnsynch(i)).s))
        ELSE /\ COMM \in DOMAIN frames
             /\ frames[COMM] = Mk(UnitValue(gen.segs[i], EffectiveUnsynch(i)).s)

\* the first bytes 00 00 of the description are a 2-byte unit of it
AlignedFirst(g) ==
  IndexNulNul(FromDescriptionOn(g), 1) = IndexNulUnit(FromDescriptionOn(g), 1)

\* the same for the frames where the first two bytes 00 00 from the
\* description on are a unit
C26_WhenFirstNulsAligned ==
  (gen.family = "flagged" /\ gen.major > 2 /\ ScanReturned) =>
    \A i \in 1..Len(gen.segs) :
      (TwoByteDescription(i) /\ AlignedFirst(gen.segs[i])) =>
        IF UnitValue(gen.segs[i], EffectiveUnsynch(i)).err # ""
        THEN IF gen.segs[i].kind = "txxx" THEN txxx = EmptyMap
             ELSE /\ pc \in {"error", "panic"}
                  /\ err = UnitValue(gen.segs[i], EffectiveUnsynch(i)).err
        ELSE IF gen.segs[i].kind = "txxx"
        THEN txxx = (UnitDescription(gen.segs[i])
                       :> Mk(UnitValue(gen.segs[i], EffectiveUnsynch(i)).s))
        ELSE /\ COMM \in DOMAIN frames
             /\ frames[COMM] = Mk(UnitValue(gen.segs[i], EffectiveUnsynch(i)).s)

\* a TXXX frame with selector 0x01, the description "A" in UTF-16 with the
\* least significant byte first: the 00 of "A" and the first 00 of the
\* terminator were taken as the terminator, the value was read one byte
\* early and the frame was passed over
C26_UnalignedTerminator ==
  /\ gen.family = "flagged" /\ gen.major = 3 /\ gen.flags = 0
  /\ Len(gen.segs) = 1 /\ gen.segs[1].id = TXXX
  /\ gen.segs[1].scheme = "utf16-bom-le" /\ gen.segs[1].desc = <<65>>
  /\ ~AlignedFirst(gen.segs[1])
  /\ UnitValue(gen.segs[1], FALSE) = [s |-> <<105>>, err |-> ""]
  /\ pc = "done" /\ txxx = EmptyMap

\* readHeader and the footer adjustment of Decode are behind
HeaderParsed == pc \in {"frameloop", "recover", "translate", "discard", "makeTags", "done"}

\* C27: for all values of the header and extended-header fields, the
\* scan-region size, the declared size less the extended-header padding size,
\* the extended-header byte cost and the footer size, is never greater than
\* the declared size: no unsigned 32-bit subtraction wraps around.
C27_NoWrapAround ==
  (gen.family = "header" /\ HeaderParsed) =>
    /\ U32Le(h.Size, U32(gen.size))
    /\ BufLen(tag) = h.Size

\* the same for the headers whose declared size covers what is taken off it:
\* the scan region is the declared size less the cost
C27_SizeCoversCost ==
  (gen.family = "header" /\ HeaderParsed /\ SizeCost <= gen.size) =>
    /\ h.Size = U32(gen.size - SizeCost)
    /\ BufLen(tag) = h.Size

\* a v2.4 header of declared size 0 with the footer flag: the footer size was
\* taken off 0 and the scan region is 2^32 - 10 bytes
C27_FooterWraps ==
  /\ gen.family = "header" /\ gen.major = 4 /\ gen.flags = flagFooterPresent
  /\ gen.size = 0
  /\ pc = "frameloop"
  /\ h.Size = U32Sub(U32(0), U32(footerSize))
  /\ BufLen(tag) = h.Size

\* a v2.4 extended header of size 5: the size less 6 wrapped around and
\* readHeader failed on the read of 2^32 - 1 bytes
C27_ExtendedSizeBelowSix ==
  /\ gen.family = "header" /\ gen.major = 4 /\ HasBit(gen.flags, flagExtendedHeader)
  /\ gen.ext.hhSize = 5
  /\ pc = "error" /\ err = "ErrUnexpectedEOF"
  /\ h = NoHeader

\* C28: the Size of the header exposed in the returned tag set equals the
\* synchsafe-decoded size field of the 10-byte tag header, whether or not an
\* extended header, extended-header padding or a footer was present: the rest
\* of header parsing and Decode leave the decoded value unchanged.
C28_SizeAsDeclared ==
  (gen.family = "header" /\ pc = "done") =>
    /\ tags.Header.Size = U32(gen.size)
    /\ tags.Header.Major = gen.major /\ tags.Header.Flags = gen.flags

\* what the returned header does hold: the declared size less the
\* extended-header padding size, the extended-header cost and the footer
\* size, modulo 2^32
C28_SizeLessCost ==
  (gen.family = "header" /\ pc = "done") =>
    /\ tags.Header.Size = U32Sub(U32(gen.size), U32(SizeCost))
    /\ tags.Header.Major = gen.major /\ tags.Header.Flags = gen.flags

\* a v2.3 tag with an extended header of size 10 and padding size 4 and a
\* footer was decoded: the returned header's Size is 28 below the declared
\* size
C28_ReturnedSizeReduced ==
  /\ gen.family = "header" /\ gen.major = 3 /\ pc = "done"
  /\ gen.flags = 208 /\ gen.ext.hhSize = 10 /\ gen.ext.padSize = 4
  /\ gen.size = CoherentSize(3, 208, gen.ext)
  /\ ToNat(tags.Header.Size) + 28 = gen.size

\* a tag with neither extended header nor footer was decoded: the returned
\* header's Size is the declared size
C28_ReturnedSizePlain ==
  /\ gen.family = "header" /\ gen.major = 4 /\ pc = "done"
  /\ gen.flags = flagUnsynchronisation /\ gen.size > 0
  /\ tags.Header.Size = U32(gen.size)

\* what readFrames ends with: a frame map, or an error value
EndsWithMapOrError == pc # "panic"

\* C29: for every content of the body region and every frame size and flag
\* value, frame scanning ends with a frame map or an error value; it never
\* faults on an out-of-range access, a text or TXXX frame of declared size 0,
\* a UTF-16 body of odd length or shorter than its byte order mark and a
\* data-length-indicator frame of declared size below 4 included.
C29_ScanNeverFaults == EndsWithMapOrError /\ err # "panic"

\* segment i is a text, TXXX or COMM frame one of whose strings is in a
\* two-byte encoding
TwoByteFrame(i) ==
  /\ gen.segs[i].kind \in {"text", "txxx", "comm"}
  /\ gen.segs[i].body # <<>>
  /\ gen.segs[i].body[1] \in {encUTF16_BOM, encUTF16BE}

\* segment i is a text or TXXX frame whose body read is of no byte: its
\* declared size is 0, or 4 with a data length indicator
EmptyBodyRead(i) ==
  /\ gen.segs[i].kind \in {"text", "txxx"}
  /\ gen.segs[i].size = IF Indicated(i) THEN 4 ELSE 0

\* what the code keeps of C29: a tag without a two-byte encoding and without
\* a text or TXXX frame of an empty body read never faults, whatever flags
\* and sizes its frames declare
C29_OtherFramesNeverFault ==
  (\A i \in 1..Len(gen.segs) : ~TwoByteFrame(i) /\ ~EmptyBodyRead(i))
    => EndsWithMapOrError

\* a text frame of declared size 0 made the scan fault on buf[0]
C29_EmptyTextFrameFaults ==
  /\ gen.family = "flagged" /\ gen.major = 3 /\ gen.flags = 0
  /\ Len(gen.segs) = 1 /\ gen.segs[1].id = TALB /\ gen.segs[1].size = 0
  /\ pc = "panic" /\ rr = U32(10)

\* a UTF-16 body of odd length made it fault in decodeUTF16BE
C29_OddLengthFaults ==
  /\ gen.family = "flagged" /\ gen.major = 4 /\ gen.flags = 0
  /\ Len(gen.segs) = 1 /\ gen.segs[1].body = <<2, 0, 72, 105>>
  /\ pc = "panic"

\* a data-length-indicator frame of declared size 2 ended the scan with an
\* error value: the size wrapped around to 2^32 - 2, a length make takes
\* where int has 64 bits, and the body read fell short
C29_IndicatorBelowFour ==
  /\ gen.family = "flagged" /\ gen.major = 3 /\ gen.flags = 0
  /\ Len(gen.segs) = 1 /\ Indicated(1) /\ gen.segs[1].size = 2 /\ gen.pad > 0
  /\ pc = "error" /\ err = "ErrUnexpectedEOF"

\* readFrames is in its frame loop
ScanRunning == pc \in {"frameloop", "recover"}

\* C30: the frame scan terminates for every header and every finite body
\* region: each pass of the outer frame loop and each step of the
\* padding-recovery loop either consumes at least one byte of the region,
\* whose end the reader never passes, or ends the scan, also when the counter
\* advance frameSize + headerSize wraps around in 32 bits.
C30_EachStepConsumes ==
  [][ScanRunning =>
       \/ pc' \notin {"frameloop", "recover"}
       \/ (U32Lt(rr, rr') /\ U32Le(rr', BufLen(tag)) /\ tag' = tag)]_vars

\* the counter advance wrapped around, frameSize + headerSize = 4, and the
\* scan ended all the same: the reader was at the end of the region
C30_Witness ==
  /\ gen.family = "flagged" /\ gen.major = 3 /\ Len(gen.segs) = 1
  /\ frameSize = U32Sub(U32(0), U32(6))
  /\ pos = U32(4) /\ U32Lt(pos, h.Size)
  /\ rr = BufLen(tag)
  /\ pc = "done"

\* the same with an advance of 0: the counter stayed where it was
C30_WitnessNoAdvance ==
  /\ gen.family = "flagged" /\ gen.major = 3 /\ Len(gen.segs) = 2
  /\ frameSize = U32Sub(U32(0), U32(10))
  /\ pos = U32(SegStart(2))
  /\ rr = BufLen(tag)
  /\ pc = "done"

====
